---------------------------- MODULE Spec2Model ----------------------------
(***************************************************************************)
(* The Aeterna toolchain: the stack VM (aeterna-node/src/vm), the text     *)
(* compiler (aeterna-node/src/compiler) and the AST compiler               *)
(* (lwas_core/src/omega/soul_compiler.rs).                                 *)
(*                                                                         *)
(* Machine integers are modelled at a reduced width: an i64 is a signed    *)
(* WordBits-bit integer and a usize an unsigned WordBits-bit integer, so   *)
(* that the overflow cases of the code are reachable.  Rust checks i64     *)
(* arithmetic for overflow when the build enables overflow checks (the     *)
(* dev profile) and wraps otherwise (the release profile); the build is    *)
(* the variable overflow_checks, chosen in Init.                           *)
(***************************************************************************)
EXTENDS Integers, Sequences, FiniteSets, TLC

VARIABLES
    stack,            \* VirtualMachine.stack: Vec<i64>, top at the end
    memory,           \* VirtualMachine.memory: Vec<i64>, indexed from 0
    program,          \* VirtualMachine.program: Vec<AeternaOpcode>
    pc,               \* VirtualMachine.pc: usize, index of the next instruction
    status,           \* "Idle" | "Running" | "Halted" | "Panicked"
    output,           \* the "VM Output" log lines written by PRINT
    steps,            \* number of instructions fetched so far
    overflow_checks,  \* TRUE: dev profile (overflow panics); FALSE: release (wraps)
    source,           \* the text given to the text compiler
    nodes,            \* the Vec<AstNode> given to the AST compiler
    bytecode,         \* the Vec<AeternaOpcode> a compiler returned
    compiled,         \* whether a compiler has returned
    parsed,           \* what parse_soul returned: <<>> or <<result>>
    captured,         \* the VMState capture_state last returned: <<>> or <<state>>
    teleport,         \* the last call of teleport_vm_to_host: <<>> or <<call>>
    kept,             \* the snapshot held for a second VM: <<>> or <<fork>>
    trace,            \* what the first VM did after that snapshot was taken
    replayed,         \* steps of the second VM so far; -1 before it is restored
    host_call         \* a call of teleport_vm_to_host about to be made: <<>> or <<call>>

vmVars == <<stack, memory, program, pc, status, output, steps, overflow_checks>>
compilerVars == <<source, nodes, bytecode, compiled, parsed>>
migrationVars == <<captured, teleport, kept, trace, replayed, host_call>>
vars == <<vmVars, compilerVars, migrationVars>>

---------------------------------------------------------------------------
(* Bounds of the model *)

WordBits == 15
MaxProgLen == 2
MaxSteps == 8
MaxTokens == 3
MaxAstSize == 3
MaxLexemes == 3

---------------------------------------------------------------------------
(* Machine integers *)

I64_MAX == 2^(WordBits - 1) - 1
I64_MIN == -(2^(WordBits - 1))
USIZE_MAX == 2^WordBits - 1

InI64(x) == I64_MIN <= x /\ x <= I64_MAX

\* two's-complement wrap-around of a mathematical result into i64
Wrap(x) == ((x - I64_MIN) % (2^WordBits)) + I64_MIN

Abs(x) == IF x < 0 THEN -x ELSE x

\* Rust's integer division truncates toward zero (b # 0)
TruncDiv(a, b) ==
    IF (a < 0) = (b < 0) THEN Abs(a) \div Abs(b) ELSE -(Abs(a) \div Abs(b))

DigitChar(d) ==
    CASE d = 0 -> "0" [] d = 1 -> "1" [] d = 2 -> "2" [] d = 3 -> "3" [] d = 4 -> "4"
      [] d = 5 -> "5" [] d = 6 -> "6" [] d = 7 -> "7" [] d = 8 -> "8" [] d = 9 -> "9"

\* the decimal digits of n >= 0
RECURSIVE Decimal(_)
Decimal(n) == IF n < 10 THEN <<DigitChar(n)>> ELSE Append(Decimal(n \div 10), DigitChar(n % 10))

---------------------------------------------------------------------------
(* AeternaOpcode *)

\* an instruction: the variant's name, its numeric operand (0 when it has none)
\* and its string operand ("" when it has none)
Op0(name) == [op |-> name, arg |-> 0, text |-> ""]
Op1(name, x) == [op |-> name, arg |-> x, text |-> ""]
OpS(name, x, str) == [op |-> name, arg |-> x, text |-> str]
\* an instruction with an f64 operand, held as a whole number of quarters
OpF(name, x, q) == [op |-> name, arg |-> x, text |-> "", value |-> q]

LOAD(v) == Op1("LOAD", v)
STORE(a) == Op1("STORE", a)
JUMP(a) == Op1("JUMP", a)
JUMP_IF(a) == Op1("JUMP_IF", a)
ADD == Op0("ADD")
SUB == Op0("SUB")
MUL == Op0("MUL")
DIV == Op0("DIV")
SAVE_STATE == Op0("SAVE_STATE")
LOAD_STATE == Op0("LOAD_STATE")
REQUEST_HOST == Op0("REQUEST_HOST")
ENTROPY_RESET == Op0("ENTROPY_RESET")
PRINT == Op0("PRINT")
HALT == Op0("HALT")
ONTOLOGICAL_SHIFT(x) == Op1("ONTOLOGICAL_SHIFT", x)
RESONATE_MEMBRANE(x) == Op1("RESONATE_MEMBRANE", x)
INVERT_ENTROPY(x) == Op1("INVERT_ENTROPY", x)
VERIFY_TIMELINE(x) == Op1("VERIFY_TIMELINE", x)
PREDICT_NEED(x) == Op1("PREDICT_NEED", x)
INVERT_LOGIC(x) == Op1("INVERT_LOGIC", x)
DEFINE_MATTER(str) == OpS("DEFINE_MATTER", 0, str)
FORK_INSTANCE(x) == Op1("FORK_INSTANCE", x)
PATCH_REALITY(x, str) == OpS("PATCH_REALITY", x, str)
TUNE_CONSTANT(x, q) == OpF("TUNE_CONSTANT", x, q)
RECYCLE_CHRONO(q) == OpF("RECYCLE_CHRONO", 0, q)

\* the variants declared under the two EXTENSIONS headings
ExtensionOps ==
    {"ONTOLOGICAL_SHIFT", "RESONATE_MEMBRANE", "INVERT_ENTROPY", "VERIFY_TIMELINE",
     "PREDICT_NEED", "TUNE_CONSTANT", "INVERT_LOGIC", "DEFINE_MATTER", "RECYCLE_CHRONO",
     "FORK_INSTANCE", "PATCH_REALITY"}

---------------------------------------------------------------------------
(* VirtualMachine *)

MEMORY_SIZE == 1024

MemIdx == 0 .. (MEMORY_SIZE - 1)

ZeroMemory == [i \in MemIdx |-> 0]

Top(s) == s[Len(s)]
Pop(s) == SubSeq(s, 1, Len(s) - 1)
Push(s, v) == Append(s, v)


\* VirtualMachine::new: empty stack, zeroed memory, pc = 0
VmNew(prog) ==
    [stack |-> <<>>, memory |-> ZeroMemory, program |-> prog, pc |-> 0]

\* the distinct values of a finite set of integers, ascending
RECURSIVE Ascending(_)
Ascending(S) ==
    IF S = {} THEN <<>>
    ELSE LET m == CHOOSE x \in S : \A y \in S : x <= y
         IN  <<m>> \o Ascending(S \ {m})

\* upTo[k]: how many cells of mem hold a value <= ordered[k]
RECURSIVE CountsUpTo(_, _, _)
CountsUpTo(mem, ordered, k) ==
    IF k = 0 THEN <<>>
    ELSE Append(CountsUpTo(mem, ordered, k - 1),
                Cardinality({i \in MemIdx : mem[i] <= ordered[k]}))

\* self.memory.sort_unstable(): the cells in ascending order
SortUnstable(mem) ==
    LET ordered == Ascending({mem[i] : i \in MemIdx})
        upTo == CountsUpTo(mem, ordered, Len(ordered))
        below(k) == IF k = 1 THEN 0 ELSE upTo[k - 1]
    IN  [i \in MemIdx |->
            ordered[CHOOSE k \in 1 .. Len(ordered) : below(k) <= i /\ i < upTo[k]]]

\* The prefix sums of the cells lo .. hi-1 taken in index order: the sum of
\* all of them, and the least and the greatest sum of a non-empty prefix.
\* The range is halved so that the evaluation nests to depth log2(hi - lo).
RECURSIVE PrefixSums(_, _, _)
PrefixSums(mem, lo, hi) ==
    IF hi - lo = 1
    THEN [sum |-> mem[lo], lowest |-> mem[lo], highest |-> mem[lo]]
    ELSE LET mid == lo + ((hi - lo) \div 2)
             l == PrefixSums(mem, lo, mid)
             r == PrefixSums(mem, mid, hi)
         IN  [sum |-> l.sum + r.sum,
              lowest |-> IF l.lowest < l.sum + r.lowest THEN l.lowest ELSE l.sum + r.lowest,
              highest |-> IF l.highest > l.sum + r.highest THEN l.highest
                          ELSE l.sum + r.highest]

\* self.memory.iter().sum::<i64>(): a left fold of + from 0 over the cells in
\* index order.  An addition of the fold overflows exactly when a prefix sum
\* is outside i64; without overflow checks the additions wrap, and the
\* result is the wrapped total.
IterSum(mem) ==
    LET p == PrefixSums(mem, 0, MEMORY_SIZE)
    IN  [val |-> Wrap(p.sum), overflowed |-> ~InI64(p.lowest) \/ ~InI64(p.highest)]

\* neutralize_entropy stopping after the sort ("we just order the chaos")
NeutralizeEntropy_SortOnly(mem, checks) ==
    [panicked |-> FALSE, memory |-> SortUnstable(mem)]

\* neutralize_entropy with memory.clear() and push(total_energy) for the fill
NeutralizeEntropy_Clear(mem, checks) ==
    LET total_energy == IterSum(SortUnstable(mem))
    IN  [panicked |-> FALSE, memory |-> [i \in {0} |-> total_energy.val]]

\* neutralize_entropy: sort, sum, fill(0), memory[0] = total_energy.
\* With overflow checks an overflowing sum panics before memory is filled.
NeutralizeEntropy(mem, checks) ==
    LET sorted == SortUnstable(mem)
        total_energy == IterSum(sorted)
    IN  IF total_energy.overflowed /\ checks
        THEN [panicked |-> TRUE, memory |-> sorted]
        ELSE [panicked |-> FALSE,
              memory |-> [i \in MemIdx |-> IF i = 0 THEN total_energy.val ELSE 0]]

\* capture_state: clones of memory and stack, the pc, a zero checksum
CHECKSUM_LEN == 32

\* CaptureState with Vec::new() in place of self.stack.clone()
CaptureState_NoStack(stk, mem, counter) ==
    [memory_snapshot |-> mem, stack_snapshot |-> <<>>, program_counter |-> counter,
     checksum |-> [i \in 1 .. CHECKSUM_LEN |-> 0]]

\* CaptureState taking the memory as VirtualMachine::new made it
CaptureState_FreshMemory(stk, mem, counter) ==
    [memory_snapshot |-> ZeroMemory, stack_snapshot |-> stk, program_counter |-> counter,
     checksum |-> [i \in 1 .. CHECKSUM_LEN |-> 0]]

CaptureState(stk, mem, counter) ==
    [memory_snapshot |-> mem, stack_snapshot |-> stk, program_counter |-> counter,
     checksum |-> [i \in 1 .. CHECKSUM_LEN |-> 0]]

---------------------------------------------------------------------------
(* teleport_vm_to_host: aeterna-node/src/network/teleport.rs *)

\* an integer as serde_json writes it: "-" before the digits of a negative one
IntegerText(v) == IF v < 0 THEN <<"-">> \o Decimal(-v) ELSE Decimal(v)

\* ToJson writing each integer without its sign
ToJson_NoSign(vm_state) ==
    [memory_snapshot |->
        [i \in DOMAIN vm_state.memory_snapshot |-> Decimal(Abs(vm_state.memory_snapshot[i]))],
     stack_snapshot |->
        [k \in DOMAIN vm_state.stack_snapshot |-> Decimal(Abs(vm_state.stack_snapshot[k]))],
     program_counter |-> Decimal(vm_state.program_counter),
     checksum |-> [i \in DOMAIN vm_state.checksum |-> Decimal(vm_state.checksum[i])]]

\* serde_json::to_string(&vm_state) with the derived Serialize: a JSON object
\* with the four fields of VMState, the three sequences as arrays.  The
\* document is held as its members, each number as the text written for it.
ToJson(vm_state) ==
    [memory_snapshot |->
        [i \in DOMAIN vm_state.memory_snapshot |-> IntegerText(vm_state.memory_snapshot[i])],
     stack_snapshot |->
        [k \in DOMAIN vm_state.stack_snapshot |-> IntegerText(vm_state.stack_snapshot[k])],
     program_counter |-> IntegerText(vm_state.program_counter),
     checksum |-> [i \in DOMAIN vm_state.checksum |-> IntegerText(vm_state.checksum[i])]]

\* ChaCha20Poly1305::generate_key(&mut OsRng) and generate_nonce(&mut OsRng)
KeySpace == {"k1", "k2"}
NonceSpace == {"n1", "n2"}

\* cipher.encrypt(&nonce, plaintext): authenticated encryption, held as the
\* sealed plaintext together with the key and the nonce that open it
Encrypt(key, nonce, plaintext) == [key |-> key, nonce |-> nonce, sealed |-> plaintext]

\* TeleportVmToHost looking the host up first: an empty id is not found
TeleportVmToHost_LooksUpHost(vm_state, target_host_id, serialized, key, nonce, encrypted) ==
    IF target_host_id = ""
    THEN [vm_state |-> vm_state, target_host_id |-> target_host_id,
          key |-> <<>>, nonce |-> <<>>, encrypted_state |-> <<>>,
          result |-> "HostNotFound"]
    ELSE [vm_state |-> vm_state, target_host_id |-> target_host_id,
          key |-> IF serialized /\ encrypted THEN <<key>> ELSE <<>>,
          nonce |-> IF serialized /\ encrypted THEN <<nonce>> ELSE <<>>,
          encrypted_state |-> IF serialized /\ encrypted
                              THEN <<Encrypt(key, nonce, ToJson(vm_state))>> ELSE <<>>,
          result |-> IF ~serialized THEN "SerializationError"
                     ELSE IF ~encrypted THEN "EncryptionFailed" ELSE "Ok"]

\* One call of teleport_vm_to_host.  serialized and encrypted say whether
\* to_string and encrypt returned Ok; an Err of either returns through `?`
\* before anything later is computed.  The encrypted state is only measured
\* and logged, and the call then returns Ok(()).
TeleportVmToHost(vm_state, target_host_id, serialized, key, nonce, encrypted) ==
    LET failed(e) == [vm_state |-> vm_state, target_host_id |-> target_host_id,
                      key |-> <<>>, nonce |-> <<>>, encrypted_state |-> <<>>,
                      result |-> e]
    IN  IF ~serialized THEN failed("SerializationError")
        ELSE IF ~encrypted THEN failed("EncryptionFailed")
        ELSE [vm_state |-> vm_state, target_host_id |-> target_host_id,
              key |-> <<key>>, nonce |-> <<nonce>>,
              encrypted_state |-> <<Encrypt(key, nonce, ToJson(vm_state))>>,
              result |-> "Ok"]

---------------------------------------------------------------------------
(* VirtualMachine::run: one action per arm of the match.  The loop fetches  *)
(* program[pc], advances pc and then executes the arm.                      *)

\* while self.pc < self.program.len()
Fetching == status = "Running" /\ pc < Len(program) /\ steps < MaxSteps

Opcode == program[pc + 1]

Fetch(name) == Fetching /\ Opcode.op = name /\ steps' = steps + 1

\* self.stack.pop().unwrap_or(d), twice: b from the top, then a below it
PopB(d) == IF Len(stack) > 0 THEN Top(stack) ELSE d
AfterB == IF Len(stack) > 0 THEN Pop(stack) ELSE stack
PopA(d) == IF Len(AfterB) > 0 THEN Top(AfterB) ELSE d
AfterA == IF Len(AfterB) > 0 THEN Pop(AfterB) ELSE AfterB

\* self.stack.push(r) for an arithmetic result r: a result outside i64 panics
\* under overflow checks and wraps without them
PushArith(rest, r) ==
    IF InI64(r)
    THEN stack' = Push(rest, r) /\ status' = status
    ELSE IF overflow_checks
         THEN stack' = rest /\ status' = "Panicked"
         ELSE stack' = Push(rest, Wrap(r)) /\ status' = status

\* what is seen of a VM after a step: its state and the lines printed
Observed(stk, mem, counter, st, printed) ==
    [stack |-> stk, memory |-> mem, pc |-> counter, status |-> st, printed |-> printed]

\* Once a snapshot is held for a second VM, each step of the first VM is
\* recorded; each step of the second VM is counted.
Track ==
    /\ kept' = kept
    /\ host_call' = host_call
    /\ IF kept = <<>> THEN UNCHANGED <<trace, replayed>>
       ELSE IF replayed < 0
            THEN /\ trace' = Append(trace,
                                    Observed(stack', memory', pc', status',
                                             SubSeq(output', kept[1].printed + 1,
                                                    Len(output'))))
                 /\ replayed' = replayed
            ELSE /\ trace' = trace
                 /\ replayed' = replayed + 1

RunLOAD ==
    /\ Fetch("LOAD")
    /\ pc' = pc + 1
    /\ stack' = Push(stack, Opcode.arg)
    /\ UNCHANGED <<memory, program, status, output, overflow_checks,
                   compilerVars, captured, teleport>>
    /\ Track

\* RunSTORE reading the top with last() instead of pop()
RunSTORE_Peek ==
    /\ Fetch("STORE")
    /\ pc' = pc + 1
    /\ IF Len(stack) > 0 /\ Opcode.arg < MEMORY_SIZE
       THEN memory' = [memory EXCEPT ![Opcode.arg] = Top(stack)]
       ELSE memory' = memory
    /\ UNCHANGED <<stack, program, status, output, overflow_checks,
                   compilerVars, captured, teleport>>
    /\ Track

\* RunSTORE writing at addr % self.memory.len() instead of testing addr
RunSTORE_Wrap ==
    /\ Fetch("STORE")
    /\ pc' = pc + 1
    /\ IF Len(stack) > 0
       THEN /\ stack' = Pop(stack)
            /\ memory' = [memory EXCEPT ![Opcode.arg % MEMORY_SIZE] = Top(stack)]
       ELSE UNCHANGED <<stack, memory>>
    /\ UNCHANGED <<program, status, output, overflow_checks, compilerVars, captured, teleport>>
    /\ Track

RunSTORE ==
    /\ Fetch("STORE")
    /\ pc' = pc + 1
    /\ IF Len(stack) > 0
       THEN /\ stack' = Pop(stack)
            /\ IF Opcode.arg < MEMORY_SIZE
               THEN memory' = [memory EXCEPT ![Opcode.arg] = Top(stack)]
               ELSE memory' = memory
       ELSE UNCHANGED <<stack, memory>>
    /\ UNCHANGED <<program, status, output, overflow_checks, compilerVars, captured, teleport>>
    /\ Track

RunADD ==
    /\ Fetch("ADD")
    /\ pc' = pc + 1
    /\ PushArith(AfterA, PopA(0) + PopB(0))
    /\ UNCHANGED <<memory, program, output, overflow_checks, compilerVars, captured, teleport>>
    /\ Track

RunSUB ==
    /\ Fetch("SUB")
    /\ pc' = pc + 1
    /\ PushArith(AfterA, PopA(0) - PopB(0))
    /\ UNCHANGED <<memory, program, output, overflow_checks, compilerVars, captured, teleport>>
    /\ Track

RunMUL ==
    /\ Fetch("MUL")
    /\ pc' = pc + 1
    /\ PushArith(AfterA, PopA(0) * PopB(0))
    /\ UNCHANGED <<memory, program, output, overflow_checks, compilerVars, captured, teleport>>
    /\ Track

\* RunDIV without the b == 0 test: the division itself panics on a zero divisor
RunDIV_NoZeroCheck ==
    /\ Fetch("DIV")
    /\ pc' = pc + 1
    /\ LET b == PopB(1)
           a == PopA(0)
       IN  IF b = 0 \/ (a = I64_MIN /\ b = -1)
           THEN stack' = AfterA /\ status' = "Panicked"
           ELSE stack' = Push(AfterA, TruncDiv(a, b)) /\ status' = status
    /\ UNCHANGED <<memory, program, output, overflow_checks, compilerVars, captured, teleport>>
    /\ Track

\* b == 0 pushes 0 without popping a; i64::MIN / -1 panics in every build
RunDIV ==
    /\ Fetch("DIV")
    /\ pc' = pc + 1
    /\ LET b == PopB(1)
           a == PopA(0)
       IN  IF b = 0
           THEN stack' = Push(AfterB, 0) /\ status' = status
           ELSE IF a = I64_MIN /\ b = -1
                THEN stack' = AfterA /\ status' = "Panicked"
                ELSE stack' = Push(AfterA, TruncDiv(a, b)) /\ status' = status
    /\ UNCHANGED <<memory, program, output, overflow_checks, compilerVars, captured, teleport>>
    /\ Track

RunJUMP ==
    /\ Fetch("JUMP")
    /\ pc' = Opcode.arg
    /\ UNCHANGED <<stack, memory, program, status, output, overflow_checks,
                   compilerVars, captured, teleport>>
    /\ Track

\* RunJUMP_IF testing the top with last() instead of pop()
RunJUMP_IF_Peek ==
    /\ Fetch("JUMP_IF")
    /\ pc' = IF Len(stack) > 0 /\ Top(stack) # 0 THEN Opcode.arg ELSE pc + 1
    /\ UNCHANGED <<stack, memory, program, status, output, overflow_checks,
                   compilerVars, captured, teleport>>
    /\ Track

\* RunJUMP_IF with unwrap_or(1) on the pop: an empty stack takes the branch
RunJUMP_IF_DefaultTaken ==
    /\ Fetch("JUMP_IF")
    /\ stack' = AfterB
    /\ pc' = IF PopB(1) # 0 THEN Opcode.arg ELSE pc + 1
    /\ UNCHANGED <<memory, program, status, output, overflow_checks,
                   compilerVars, captured, teleport>>
    /\ Track

RunJUMP_IF ==
    /\ Fetch("JUMP_IF")
    /\ IF Len(stack) > 0
       THEN /\ stack' = Pop(stack)
            /\ pc' = IF Top(stack) # 0 THEN Opcode.arg ELSE pc + 1
       ELSE /\ stack' = stack
            /\ pc' = pc + 1
    /\ UNCHANGED <<memory, program, status, output, overflow_checks,
                   compilerVars, captured, teleport>>
    /\ Track

\* RunSAVE_STATE moving the stack into the snapshot instead of cloning it
RunSAVE_STATE_TakesStack ==
    /\ Fetch("SAVE_STATE")
    /\ pc' = pc + 1
    /\ captured' = <<CaptureState(stack, memory, pc + 1)>>
    /\ stack' = <<>>
    /\ UNCHANGED <<memory, program, status, output, overflow_checks, compilerVars, teleport>>
    /\ Track

\* RunSAVE_STATE capturing before the pc is advanced
RunSAVE_STATE_BeforeAdvance ==
    /\ Fetch("SAVE_STATE")
    /\ pc' = pc + 1
    /\ captured' = <<CaptureState(stack, memory, pc)>>
    /\ UNCHANGED <<stack, memory, program, status, output, overflow_checks, compilerVars,
                   teleport>>
    /\ Track

\* let state = self.capture_state(): taken after pc += 1, then only logged
RunSAVE_STATE ==
    /\ Fetch("SAVE_STATE")
    /\ pc' = pc + 1
    /\ captured' = <<CaptureState(stack, memory, pc + 1)>>
    /\ UNCHANGED <<stack, memory, program, status, output, overflow_checks, compilerVars,
                   teleport>>
    /\ Track

\* RunLOAD_STATE assigning the stack and the memory last captured
RunLOAD_STATE_Restores ==
    /\ Fetch("LOAD_STATE")
    /\ pc' = pc + 1
    /\ stack' = IF captured = <<>> THEN stack ELSE captured[1].stack_snapshot
    /\ memory' = IF captured = <<>> THEN memory ELSE captured[1].memory_snapshot
    /\ UNCHANGED <<program, status, output, overflow_checks, compilerVars, captured, teleport>>
    /\ Track

\* "Loading State (Not Implemented in standalone VM)": logged only
RunLOAD_STATE ==
    /\ Fetch("LOAD_STATE")
    /\ pc' = pc + 1
    /\ UNCHANGED <<stack, memory, program, status, output, overflow_checks, compilerVars,
                   captured, teleport>>
    /\ Track

TARGET_HOST == "node-Alpha-Centauri-7"

\* RunREQUEST_HOST leaving the loop when the teleport fails
RunREQUEST_HOST_BreakOnErr ==
    /\ Fetch("REQUEST_HOST")
    /\ pc' = pc + 1
    /\ captured' = <<CaptureState(stack, memory, pc + 1)>>
    /\ \E serialized \in BOOLEAN, encrypted \in BOOLEAN, key \in KeySpace, nonce \in NonceSpace :
          teleport' = <<TeleportVmToHost(captured'[1], TARGET_HOST, serialized, key, nonce,
                                         encrypted)>>
    /\ status' = IF teleport'[1].result = "Ok" THEN status ELSE "Halted"
    /\ UNCHANGED <<stack, memory, program, output, overflow_checks, compilerVars>>
    /\ Track

\* teleport_vm_to_host takes the captured state by value and returns before
\* the arm goes on; Ok and Err are both only logged
RunREQUEST_HOST ==
    /\ Fetch("REQUEST_HOST")
    /\ pc' = pc + 1
    /\ captured' = <<CaptureState(stack, memory, pc + 1)>>
    /\ \E serialized \in BOOLEAN, encrypted \in BOOLEAN, key \in KeySpace, nonce \in NonceSpace :
          teleport' = <<TeleportVmToHost(captured'[1], TARGET_HOST, serialized, key, nonce,
                                         encrypted)>>
    /\ UNCHANGED <<stack, memory, program, status, output, overflow_checks, compilerVars>>
    /\ Track

RunENTROPY_RESET ==
    /\ Fetch("ENTROPY_RESET")
    /\ pc' = pc + 1
    /\ LET r == NeutralizeEntropy(memory, overflow_checks)
       IN  /\ memory' = r.memory
           /\ status' = IF r.panicked THEN "Panicked" ELSE status
    /\ UNCHANGED <<stack, program, output, overflow_checks, compilerVars, captured, teleport>>
    /\ Track

\* the two lines PRINT logs: "VM Output: {val}" and "VM Output: [Empty Stack]"
ValueLine(v) == [empty |-> FALSE, val |-> v]
EmptyStackLine == [empty |-> TRUE, val |-> 0]

\* RunPRINT with self.stack.pop() for self.stack.last()
RunPRINT_Pops ==
    /\ Fetch("PRINT")
    /\ pc' = pc + 1
    /\ output' = Append(output, IF Len(stack) > 0 THEN ValueLine(Top(stack))
                                ELSE EmptyStackLine)
    /\ stack' = AfterB
    /\ UNCHANGED <<memory, program, status, overflow_checks, compilerVars, captured, teleport>>
    /\ Track

\* self.stack.last(): the top is read, not popped
RunPRINT ==
    /\ Fetch("PRINT")
    /\ pc' = pc + 1
    /\ output' = Append(output, IF Len(stack) > 0 THEN ValueLine(Top(stack))
                                ELSE EmptyStackLine)
    /\ UNCHANGED <<stack, memory, program, status, overflow_checks,
                   compilerVars, captured, teleport>>
    /\ Track

\* the line logged for the payload of an extension instruction
ExtensionLine(instr) == [extension |-> instr]

\* RunExtension taking its operand from the stack
RunExtension_PopsOperand ==
    /\ Fetching /\ Opcode.op \in ExtensionOps /\ steps' = steps + 1
    /\ pc' = pc + 1
    /\ stack' = AfterB
    /\ output' = Append(output, ExtensionLine(Opcode))
    /\ UNCHANGED <<memory, program, status, overflow_checks, compilerVars, captured, teleport>>
    /\ Track

\* An extension instruction.  The match of run has no arm for these eleven
\* variants; the arm is the one the specification describes: the payload is
\* logged and the VM state is left alone.
RunExtension ==
    /\ Fetching /\ Opcode.op \in ExtensionOps /\ steps' = steps + 1
    /\ pc' = pc + 1
    /\ output' = Append(output, ExtensionLine(Opcode))
    /\ UNCHANGED <<stack, memory, program, status, overflow_checks, compilerVars, captured,
                   teleport>>
    /\ Track

\* RunHALT without the break: the loop goes on to the next instruction
RunHALT_NoBreak ==
    /\ Fetch("HALT")
    /\ pc' = pc + 1
    /\ UNCHANGED <<stack, memory, program, status, output, overflow_checks,
                   compilerVars, captured, teleport>>
    /\ Track

\* HALT: break
RunHALT ==
    /\ Fetch("HALT")
    /\ pc' = pc + 1
    /\ status' = "Halted"
    /\ UNCHANGED <<stack, memory, program, output, overflow_checks,
                   compilerVars, captured, teleport>>
    /\ Track

\* the loop condition fails: run returns
RunEnd ==
    /\ status = "Running"
    /\ pc >= Len(program)
    /\ status' = "Halted"
    /\ UNCHANGED <<stack, memory, program, pc, output, steps, overflow_checks,
                   compilerVars, captured, teleport>>
    /\ Track

---------------------------------------------------------------------------
(* The text compiler: aeterna-node/src/compiler/mod.rs.  A source text is a *)
(* sequence of characters, a token a non-empty sequence of characters.      *)

Whitespace == {" ", "\t", "\n"}

\* source.split_whitespace().collect(): the maximal runs of non-whitespace
RECURSIVE SplitFrom(_, _, _, _)
SplitFrom(src, i, cur, acc) ==
    IF i > Len(src) THEN (IF cur = <<>> THEN acc ELSE Append(acc, cur))
    ELSE IF src[i] \in Whitespace
         THEN SplitFrom(src, i + 1, <<>>, IF cur = <<>> THEN acc ELSE Append(acc, cur))
         ELSE SplitFrom(src, i + 1, Append(cur, src[i]), acc)

SplitWhitespace(src) == SplitFrom(src, 1, <<>>, <<>>)

DigitChars == {"0", "1", "2", "3", "4", "5", "6", "7", "8", "9"}

DigitVal(c) ==
    CASE c = "0" -> 0 [] c = "1" -> 1 [] c = "2" -> 2 [] c = "3" -> 3 [] c = "4" -> 4
      [] c = "5" -> 5 [] c = "6" -> 6 [] c = "7" -> 7 [] c = "8" -> 8 [] c = "9" -> 9

\* the value of a sequence of decimal digits
RECURSIVE DigitsValue(_, _, _)
DigitsValue(ds, i, acc) ==
    IF i > Len(ds) THEN acc ELSE DigitsValue(ds, i + 1, acc * 10 + DigitVal(ds[i]))

ParseErr == [ok |-> FALSE, val |-> 0]
ParseOk(v) == [ok |-> TRUE, val |-> v]

AllDigits(ds) == ds # <<>> /\ \A k \in 1 .. Len(ds) : ds[k] \in DigitChars

\* ParseI64 that takes no sign: every signed literal is an error
ParseI64_NoSign(tok) ==
    IF AllDigits(tok) /\ InI64(DigitsValue(tok, 1, 0))
    THEN ParseOk(DigitsValue(tok, 1, 0)) ELSE ParseErr

\* str::parse::<i64>: an optional + or -, then one or more digits; a value
\* outside i64 is an error
ParseI64(tok) ==
    LET signed == tok # <<>> /\ tok[1] \in {"+", "-"}
        ds == IF signed THEN Tail(tok) ELSE tok
        v == IF signed /\ tok[1] = "-" THEN -DigitsValue(ds, 1, 0) ELSE DigitsValue(ds, 1, 0)
    IN  IF AllDigits(ds) /\ InI64(v) THEN ParseOk(v) ELSE ParseErr

\* str::parse::<usize>: an optional +, then one or more digits; a value above
\* usize::MAX is an error
ParseUsize(tok) ==
    LET signed == tok # <<>> /\ tok[1] = "+"
        ds == IF signed THEN Tail(tok) ELSE tok
        v == DigitsValue(ds, 1, 0)
    IN  IF AllDigits(ds) /\ v <= USIZE_MAX THEN ParseOk(v) ELSE ParseErr

KW_BECOME == <<"B", "E", "C", "O", "M", "E">>
KW_VOID == <<"V", "O", "I", "D">>
KW_MANIFEST == <<"M", "A", "N", "I", "F", "E", "S", "T">>
KW_TRANSCEND == <<"T", "R", "A", "N", "S", "C", "E", "N", "D">>
KW_ECHO == <<"E", "C", "H", "O">>
KW_ANCHOR == <<"A", "N", "C", "H", "O", "R">>

\* CompileLoop stepping over the token after MANIFEST, ANCHOR and BECOME
\* whether or not it was used
RECURSIVE CompileLoop_AlwaysSkips(_, _, _)
CompileLoop_AlwaysSkips(tokens, i, out) ==
    IF i >= Len(tokens) THEN out
    ELSE LET tok == tokens[i + 1]
             has_next == i + 1 < Len(tokens)
             next == tokens[i + 2]
         IN  CASE tok = KW_BECOME ->
                    CompileLoop_AlwaysSkips(tokens, i + 2,
                        IF has_next /\ next = KW_VOID THEN Append(out, ENTROPY_RESET) ELSE out)
               [] tok = KW_MANIFEST ->
                    CompileLoop_AlwaysSkips(tokens, i + 2,
                        IF has_next /\ ParseI64(next).ok
                        THEN Append(out, LOAD(ParseI64(next).val)) ELSE out)
               [] tok = KW_TRANSCEND -> CompileLoop_AlwaysSkips(tokens, i + 1, Append(out, ADD))
               [] tok = KW_ECHO -> CompileLoop_AlwaysSkips(tokens, i + 1, Append(out, PRINT))
               [] tok = KW_ANCHOR ->
                    CompileLoop_AlwaysSkips(tokens, i + 2,
                        IF has_next /\ ParseUsize(next).ok
                        THEN Append(out, STORE(ParseUsize(next).val)) ELSE out)
               [] OTHER -> CompileLoop_AlwaysSkips(tokens, i + 1, out)

\* the while loop of compile: i is the 0-based index of the token examined
RECURSIVE CompileLoop(_, _, _)
CompileLoop(tokens, i, out) ==
    IF i >= Len(tokens) THEN out
    ELSE LET tok == tokens[i + 1]
             has_next == i + 1 < Len(tokens)
             next == tokens[i + 2]
         IN  CASE tok = KW_BECOME ->
                    IF has_next /\ next = KW_VOID
                    THEN CompileLoop(tokens, i + 2, Append(out, ENTROPY_RESET))
                    ELSE CompileLoop(tokens, i + 1, out)
               [] tok = KW_MANIFEST ->
                    IF has_next /\ ParseI64(next).ok
                    THEN CompileLoop(tokens, i + 2, Append(out, LOAD(ParseI64(next).val)))
                    ELSE CompileLoop(tokens, i + 1, out)
               [] tok = KW_TRANSCEND -> CompileLoop(tokens, i + 1, Append(out, ADD))
               [] tok = KW_ECHO -> CompileLoop(tokens, i + 1, Append(out, PRINT))
               [] tok = KW_ANCHOR ->
                    IF has_next /\ ParseUsize(next).ok
                    THEN CompileLoop(tokens, i + 2, Append(out, STORE(ParseUsize(next).val)))
                    ELSE CompileLoop(tokens, i + 1, out)
               [] OTHER -> CompileLoop(tokens, i + 1, out)

\* CompileText with the HALT of the other compiler: none for an empty result
CompileText_HaltIfAny(src) ==
    LET out == CompileLoop(SplitWhitespace(src), 0, <<>>)
    IN  IF out # <<>> THEN Append(out, HALT) ELSE out

\* SoulCompiler::compile(source: &str) of aeterna-node
CompileText(src) == Append(CompileLoop(SplitWhitespace(src), 0, <<>>), HALT)

---------------------------------------------------------------------------
(* The AST compiler: lwas_core/src/omega/soul_compiler.rs.  An AstNode is a *)
(* record with its variant in kind.  An f64 field is held as a whole number *)
(* of quarters (q stands for q / 4), which f64 represents exactly.          *)

Min(a, b) == IF a < b THEN a ELSE b

\* `x as usize` for an f64 x: truncation toward zero, saturating at 0 and at
\* usize::MAX
F64AsUsize(q) == IF q < 0 THEN 0 ELSE Min(q \div 4, USIZE_MAX)

\* (x * 100.0) as usize
F64Times100AsUsize(q) == F64AsUsize(q * 100)

Manifold(name, body) == [kind |-> "Manifold", name |-> name, body |-> body]
Resonate(target, frequency) == [kind |-> "Resonate", target |-> target, frequency |-> frequency]
Collapse(target, threshold) ==
    [kind |-> "Collapse", target |-> target, entropy_threshold |-> threshold]
Entrench(key, value) == [kind |-> "Entrench", key |-> key, value |-> value]
Immortal(name, value) == [kind |-> "Immortal", name |-> name, value |-> value]
Body(name, content) == [kind |-> "Body", name |-> name, content |-> content]
Spirit(name, goal) == [kind |-> "Spirit", name |-> name, goal |-> goal]
Magnet(label, power) == [kind |-> "Magnet", label |-> label, power |-> power]
Department(name, priority) == [kind |-> "Department", name |-> name, priority |-> priority]
Reflect == [kind |-> "Reflect"]
Axiom(name, expression) == [kind |-> "Axiom", name |-> name, expression |-> expression]
Causality(cause, effect, c_type) ==
    [kind |-> "Causality", cause |-> cause, effect |-> effect, c_type |-> c_type]

VERIFY_TIMELINE_TAG == 16673   \* 0x4121
MANIFOLD_SCALE == 1000

\* SoulCompiler::compile(nodes: Vec<AstNode>) of lwas_core: the for loop over
\* the ns (CompileNodes), then the HALT appended to a non-empty result
\* that does not end in HALT
RECURSIVE CompileAst(_)
RECURSIVE CompileNodes(_, _, _)

\* the instructions one arm of the match pushes for a node
CompileNode(node) ==
    CASE node.kind = "Manifold" ->
            <<LOAD(Len(node.body) * MANIFOLD_SCALE), STORE(0)>> \o CompileAst(node.body)
      [] node.kind = "Resonate" -> <<RESONATE_MEMBRANE(F64AsUsize(node.frequency))>>
      [] node.kind = "Collapse" ->
            <<INVERT_ENTROPY(F64Times100AsUsize(node.entropy_threshold))>>
      [] node.kind = "Entrench" -> <<VERIFY_TIMELINE(VERIFY_TIMELINE_TAG)>>
      [] node.kind = "Immortal" -> <<LOAD(Len(node.value))>>
      [] node.kind = "Body" -> <<DEFINE_MATTER(node.content)>>
      [] node.kind = "Spirit" -> <<PREDICT_NEED(Len(node.name))>>
      [] node.kind = "Magnet" -> <<ONTOLOGICAL_SHIFT(F64AsUsize(node.power))>>
      [] node.kind = "Department" -> <<FORK_INSTANCE(F64AsUsize(node.priority))>>
      [] node.kind = "Reflect" -> <<ENTROPY_RESET>>
      [] node.kind = "Axiom" -> <<INVERT_LOGIC(Len(node.name))>>
      [] node.kind = "Causality" ->
            <<PATCH_REALITY(0, node.cause \o "_to_" \o node.effect)>>

RECURSIVE CompileNodes_Prepend(_, _, _)
\* CompileNodes inserting each node's instructions at the front
CompileNodes_Prepend(ns, i, out) ==
    IF i > Len(ns) THEN out
    ELSE CompileNodes_Prepend(ns, i + 1, CompileNode(ns[i]) \o out)

CompileNodes(ns, i, out) ==
    IF i > Len(ns) THEN out
    ELSE CompileNodes(ns, i + 1, out \o CompileNode(ns[i]))

\* AppendHalt without the is_empty test
AppendHalt_NoEmptyTest(out) ==
    IF out = <<>> \/ out[Len(out)] # HALT THEN Append(out, HALT) ELSE out

\* if !bytecode.is_empty() && !matches!(bytecode.last(), Some(HALT)) { push(HALT) }
AppendHalt(out) ==
    IF out # <<>> /\ out[Len(out)] # HALT
    THEN Append(out, HALT)
    ELSE out

CompileAst(ns) == AppendHalt(CompileNodes(ns, 1, <<>>))

---------------------------------------------------------------------------
(* The programs the VM is run on *)

Last(s) == s[Len(s)]

\* all sequences over S of length 0 .. n
RECURSIVE SeqsUpTo(_, _)
SeqsUpTo(S, n) ==
    IF n = 0 THEN {<<>>}
    ELSE LET shorter == SeqsUpTo(S, n - 1)
         IN  shorter \cup {Append(q, x) : q \in shorter, x \in S}

Values == {0, 1, -1, 2, 10, 42, 108, I64_MAX, I64_MIN}
Addresses == {0, 1, MEMORY_SIZE - 1, MEMORY_SIZE}

ArithPrograms ==
    {<<LOAD(a), LOAD(b), op, HALT>> : a \in Values, b \in Values, op \in {ADD, SUB, MUL, DIV}}

StorePrograms == {<<LOAD(v), STORE(a), HALT>> : v \in Values, a \in Addresses}

CollapsePrograms ==
    {<<LOAD(v[1]), STORE(a[1]), LOAD(v[2]), STORE(a[2]), ENTROPY_RESET, PRINT, HALT>> :
        v \in {1, -1, 42, 108, I64_MAX, I64_MIN} \X {1, -1, 42, 108, I64_MAX, I64_MIN},
        a \in {0, 1, MEMORY_SIZE - 1} \X {0, 1, MEMORY_SIZE - 1}}

BranchPrograms ==
    {<<LOAD(7), LOAD(v), JUMP_IF(a), LOAD(1), HALT>> : v \in Values, a \in {0, 3, 4, 5, 9}}

Instructions ==
    {LOAD(v) : v \in {0, 1, I64_MAX, I64_MIN}}
        \cup {STORE(a) : a \in {0, MEMORY_SIZE - 1, MEMORY_SIZE}}
        \cup {JUMP(a) : a \in {0, 5}} \cup {JUMP_IF(a) : a \in {0, 5}}
        \cup {ADD, SUB, MUL, DIV, SAVE_STATE, LOAD_STATE, ENTROPY_RESET, PRINT, HALT}

ShortPrograms == SeqsUpTo(Instructions, MaxProgLen)

\* a snapshot captured with a value in memory and a value on the stack that
\* is then stored
CapturePrograms ==
    {<<LOAD(v), STORE(0), LOAD(v), c, STORE(a), HALT>> :
        v \in {42, -1, I64_MIN}, c \in {SAVE_STATE, REQUEST_HOST}, a \in {1, MEMORY_SIZE}}

\* REQUEST_HOST first, last, repeated and in a loop
HostPrograms ==
    {<<REQUEST_HOST>>, <<REQUEST_HOST, LOAD(1)>>, <<REQUEST_HOST, REQUEST_HOST>>,
     <<REQUEST_HOST, JUMP(0)>>, <<LOAD(I64_MAX), REQUEST_HOST, LOAD(1), ADD>>,
     <<LOAD(1), REQUEST_HOST, JUMP_IF(1), HALT>>}

\* LOAD_STATE after a capture and a change of the stack and the memory
RestorePrograms ==
    {<<LOAD(v), c, STORE(0), LOAD_STATE, PRINT, HALT>> :
        v \in {42, -1}, c \in {SAVE_STATE, REQUEST_HOST}}

\* one instruction of each extension variant
ExtensionInstructions ==
    {ONTOLOGICAL_SHIFT(16673), RESONATE_MEMBRANE(2), INVERT_ENTROPY(50),
     VERIFY_TIMELINE(16673), PREDICT_NEED(5), TUNE_CONSTANT(1, 6), INVERT_LOGIC(5),
     DEFINE_MATTER("matter"), RECYCLE_CHRONO(-6), FORK_INSTANCE(1),
     PATCH_REALITY(404, "AETERNA_CORE_STABILITY")}

\* the two programs execute_direct_command runs, and an extension instruction
\* met with a value in memory and a value on the stack
ExtensionPrograms ==
    {<<ONTOLOGICAL_SHIFT(16673), HALT>>,
     <<PATCH_REALITY(404, "AETERNA_CORE_STABILITY"), HALT>>}
        \cup {<<LOAD(v), STORE(1), LOAD(v), e, PRINT, HALT>> :
                 v \in {42, I64_MIN}, e \in ExtensionInstructions}
        \cup {<<e>> : e \in ExtensionInstructions}

\* MANIFEST 108 ANCHOR 0 MANIFEST 42 ANCHOR 1 BECOME VOID ECHO
RECURSIVE Join(_, _)
Join(tokens, sep) ==
    IF tokens = <<>> THEN <<>>
    ELSE IF Len(tokens) = 1 THEN tokens[1]
    ELSE tokens[1] \o sep \o Join(Tail(tokens), sep)

ScenarioTokens ==
    <<KW_MANIFEST, <<"1", "0", "8">>, KW_ANCHOR, <<"0">>, KW_MANIFEST, <<"4", "2">>,
      KW_ANCHOR, <<"1">>, KW_BECOME, KW_VOID, KW_ECHO>>

ScenarioSource == Join(ScenarioTokens, <<" ">>)

Programs ==
    ArithPrograms \cup StorePrograms \cup CollapsePrograms \cup BranchPrograms
        \cup ShortPrograms \cup {CompileText(ScenarioSource)} \cup ExtensionPrograms
        \cup CapturePrograms \cup HostPrograms \cup RestorePrograms

NoCompiler ==
    source = <<>> /\ nodes = <<>> /\ bytecode = <<>> /\ compiled = FALSE /\ parsed = <<>>

\* nothing captured, no teleport called, no second VM
NoMigration ==
    /\ captured = <<>> /\ teleport = <<>> /\ kept = <<>> /\ trace = <<>> /\ replayed = -1
    /\ host_call = <<>>

\* a VirtualMachine constructed by new(program), about to run
Init ==
    /\ program \in Programs
    /\ stack = VmNew(program).stack
    /\ memory = VmNew(program).memory
    /\ pc = VmNew(program).pc
    /\ status = "Running"
    /\ output = <<>>
    /\ steps = 0
    /\ overflow_checks \in BOOLEAN
    /\ NoCompiler
    /\ NoMigration

Next ==
    \/ RunLOAD
    \/ RunSTORE
    \/ RunADD
    \/ RunSUB
    \/ RunMUL
    \/ RunDIV
    \/ RunJUMP
    \/ RunJUMP_IF
    \/ RunSAVE_STATE
    \/ RunLOAD_STATE
    \/ RunREQUEST_HOST
    \/ RunENTROPY_RESET
    \/ RunPRINT
    \/ RunExtension
    \/ RunHALT
    \/ RunEnd

Spec == Init /\ [][Next]_vars

---------------------------------------------------------------------------
(* The text compiler applied to source texts *)

Keywords == {KW_BECOME, KW_VOID, KW_MANIFEST, KW_TRANSCEND, KW_ECHO, KW_ANCHOR}

TokenPool ==
    Keywords \cup {<<"1", "0", "8">>, <<"0">>, <<"-", "5">>, <<"+", "7">>, <<"x">>,
                   Decimal(I64_MAX + 1)}

TextSources ==
    {Join(ts, <<" ">>) : ts \in SeqsUpTo(TokenPool, MaxTokens)}
        \cup {ScenarioSource,
              <<" ", "\n">> \o Join(ScenarioTokens, <<"\t", " ">>) \o <<"\n">>}

\* no VirtualMachine has been constructed
NoVm ==
    /\ stack = <<>>
    /\ memory = <<>>
    /\ program = <<>>
    /\ pc = 0
    /\ status = "Idle"
    /\ output = <<>>
    /\ steps = 0
    /\ overflow_checks = FALSE

InitText ==
    /\ source \in TextSources
    /\ nodes = <<>>
    /\ bytecode = <<>>
    /\ compiled = FALSE
    /\ parsed = <<>>
    /\ NoVm
    /\ NoMigration

\* SoulCompiler::compile(source) of aeterna-node returns
TextCompile ==
    /\ ~compiled
    /\ bytecode' = CompileText(source)
    /\ compiled' = TRUE
    /\ UNCHANGED <<source, nodes, parsed, vmVars, migrationVars>>

NextText == TextCompile

SpecText == InitText /\ [][NextText]_vars

---------------------------------------------------------------------------
(* The AST compiler applied to node sequences *)

\* one node of each variant but Manifold; the f64 fields are 2.0, -1.5, 0.5,
\* 1.5, 3.25 and 1.0
Leaves ==
    {Resonate("core", 8), Resonate("core", -6),
     Collapse("field", 2),
     Entrench("k", [tag |-> "Number", num |-> 6, str |-> "", vec |-> <<>>]),
     Immortal("PHI", "1.618"), Body("shell", "matter"), Spirit("guide", "protect"),
     Magnet("m", 13), Department("ops", 4), Reflect,
     Axiom("unity", "1=1"), Causality("a", "b", "strong")}

\* the node sequences (Forests) and the nodes (Trees) of exactly n nodes
RECURSIVE Forests(_)
RECURSIVE Trees(_)
Trees(n) ==
    IF n = 1 THEN Leaves \cup {Manifold("M", <<>>)}
    ELSE {Manifold("M", b) : b \in Forests(n - 1)}

Forests(n) ==
    IF n = 0 THEN {<<>>}
    ELSE UNION {{<<t>> \o f : t \in Trees(k), f \in Forests(n - k)} : k \in 1 .. n}

AstInputs == UNION {Forests(n) : n \in 0 .. MaxAstSize}

InitAst ==
    /\ nodes \in AstInputs
    /\ source = <<>>
    /\ bytecode = <<>>
    /\ compiled = FALSE
    /\ parsed = <<>>
    /\ NoVm
    /\ NoMigration

\* SoulCompiler::compile(nodes) of lwas_core returns
AstCompile ==
    /\ ~compiled
    /\ bytecode' = CompileAst(nodes)
    /\ compiled' = TRUE
    /\ UNCHANGED <<source, nodes, parsed, vmVars, migrationVars>>

NextAst == AstCompile

SpecAst == InitAst /\ [][NextAst]_vars

---------------------------------------------------------------------------
(* lwas_parser: parse_soul.  The grammar file lwas.pest is not among the    *)
(* sources; LwasParse follows the description of the grammar: a program is  *)
(* a sequence of statements up to the end of the input, a statement is one  *)
(* of twelve rules, the body of a manifold is a nested sequence of          *)
(* statements, and any mismatch fails the whole parse with its position.    *)
(* Texts are sequences of characters; an f64 is held in quarters.           *)

\* a pest Pair: its rule, the text it spans, its inner pairs
Pair(rule, text, inner) == [rule |-> rule, text |-> text, inner |-> inner]

\* The source as the lexer sees it: a simple statement with the pairs of its
\* fields, the head of a manifold block, the end of a manifold block, or a
\* text that matches no rule.
Simple(rule, fields) == [lex |-> "simple", rule |-> rule, fields |-> fields]
BlockOpen(name) == [lex |-> "open", rule |-> "manifold_block", fields |-> <<name>>]
BlockClose == [lex |-> "close", rule |-> "", fields |-> <<>>]
Mismatch == [lex |-> "mismatch", rule |-> "", fields |-> <<>>]

PestOk(pairs, next) == [ok |-> TRUE, pairs |-> pairs, next |-> next]
PestErr(pos) == [ok |-> FALSE, pairs |-> <<>>, next |-> pos]

\* statement*: the pairs of the statements from lexeme i on, inside `depth`
\* open manifold blocks; next is the lexeme after the sequence
RECURSIVE LwasStatements(_, _, _, _)
LwasStatements(src, i, depth, acc) ==
    IF i > Len(src) THEN (IF depth = 0 THEN PestOk(acc, i) ELSE PestErr(i))
    ELSE CASE src[i].lex = "simple" ->
                LwasStatements(src, i + 1, depth,
                    Append(acc, Pair("statement", <<>>,
                                     <<Pair(src[i].rule, <<>>, src[i].fields)>>)))
           [] src[i].lex = "open" ->
                LET body == LwasStatements(src, i + 1, depth + 1, <<>>)
                IN  IF ~body.ok THEN body
                    ELSE LwasStatements(src, body.next, depth,
                            Append(acc, Pair("statement", <<>>,
                                             <<Pair("manifold_block", <<>>,
                                                    src[i].fields \o body.pairs)>>)))
           [] src[i].lex = "close" ->
                IF depth > 0 THEN PestOk(acc, i + 1) ELSE PestErr(i)
           [] src[i].lex = "mismatch" -> PestErr(i)

\* LwasParser::parse(Rule::program, input): one program pair holding the
\* statements and the end of input, or the error with its position
LwasParse(src) ==
    LET body == LwasStatements(src, 1, 0, <<>>)
    IN  IF body.ok
        THEN PestOk(<<Pair("program", <<>>, Append(body.pairs, Pair("EOI", <<>>, <<>>)))>>,
                    body.next)
        ELSE body

\* str::trim_matches('"')
RECURSIVE TrimMatches(_)
TrimMatches(text) ==
    IF text # <<>> /\ text[1] = "\"" THEN TrimMatches(Tail(text))
    ELSE IF text # <<>> /\ text[Len(text)] = "\""
         THEN TrimMatches(SubSeq(text, 1, Len(text) - 1))
         ELSE text

\* str::trim()
RECURSIVE Trim(_)
Trim(text) ==
    IF text # <<>> /\ text[1] \in Whitespace THEN Trim(Tail(text))
    ELSE IF text # <<>> /\ text[Len(text)] \in Whitespace
         THEN Trim(SubSeq(text, 1, Len(text) - 1))
         ELSE text

\* str::parse::<f64>, in quarters, for the decimal texts whose value is a
\* whole number of quarters: an optional sign, digits, an optional fraction
ParseF64(text) ==
    LET neg == text # <<>> /\ text[1] = "-"
        digits == IF neg THEN Tail(text) ELSE text
        dots == {k \in 1 .. Len(digits) : digits[k] = "."}
        dot == IF dots = {} THEN Len(digits) + 1 ELSE CHOOSE k \in dots : TRUE
        whole == SubSeq(digits, 1, dot - 1)
        fraction == SubSeq(digits, dot + 1, Len(digits))
        quarters == CASE fraction \in {<<>>, <<"0">>} -> 0
                      [] fraction = <<"2", "5">> -> 1
                      [] fraction = <<"5">> -> 2
                      [] fraction = <<"7", "5">> -> 3
                      [] OTHER -> -1
        v == 4 * DigitsValue(whole, 1, 0) + quarters
    IN  IF Cardinality(dots) <= 1 /\ AllDigits(whole) /\ quarters >= 0
        THEN ParseOk(IF neg THEN -v ELSE v) ELSE ParseErr

\* inner_rules.next().map(|n| n.as_str().parse().unwrap_or(d)).unwrap_or(d)
\* for the k-th inner pair
NumberOr(inner_rules, k, d) ==
    IF k > Len(inner_rules) THEN d
    ELSE IF ParseF64(inner_rules[k].text).ok THEN ParseF64(inner_rules[k].text).val ELSE d

\* the EntrenchValue made of the value pair of an entrench statement
EntrenchValueOf(val_pair) ==
    CASE val_pair.rule = "vector" ->
            [tag |-> "Vector", num |-> 0, str |-> <<>>,
             vec |-> [k \in 1 .. Len(val_pair.inner) |->
                         NumberOr(val_pair.inner, k, 0)]]
      [] val_pair.rule = "string_literal" ->
            [tag |-> "String", num |-> 0, str |-> TrimMatches(val_pair.text), vec |-> <<>>]
      [] val_pair.rule = "number" ->
            [tag |-> "Number", num |-> NumberOr(<<val_pair>>, 1, 0), str |-> <<>>,
             vec |-> <<>>]
      [] OTHER -> [tag |-> "String", num |-> 0, str |-> <<>>, vec |-> <<>>]

\* the goal of a spirit block: the first string literal among its fields
RECURSIVE SpiritGoal(_)
SpiritGoal(fields) ==
    IF fields = <<>> THEN <<>>
    ELSE IF fields[1].rule = "string_literal" THEN TrimMatches(fields[1].text)
         ELSE SpiritGoal(Tail(fields))

RECURSIVE ParseStatements(_)
RECURSIVE ParseStatements_Hoist(_)

\* the arm of the inner match for the pair of one statement: the nodes it
\* pushes, none for a rule without an arm; the defaults 4 and 2 are 1.0 and
\* 0.5 in quarters
ParseStatement(inner) ==
    LET inner_rules == inner.inner
    IN  CASE inner.rule = "immortal_decl" ->
                <<Immortal(inner_rules[1].text, TrimMatches(inner_rules[2].text))>>
          [] inner.rule = "body_block" -> <<Body(inner_rules[1].text, Trim(inner_rules[2].text))>>
          [] inner.rule = "spirit_block" ->
                <<Spirit(inner_rules[1].text, SpiritGoal(Tail(inner_rules)))>>
          [] inner.rule = "manifold_block" ->
                <<Manifold(inner_rules[1].text, ParseStatements(Tail(inner_rules)))>>
          [] inner.rule = "resonate_stmt" ->
                <<Resonate(inner_rules[1].text, NumberOr(inner_rules, 2, 4))>>
          [] inner.rule = "collapse_stmt" ->
                <<Collapse(inner_rules[1].text, NumberOr(inner_rules, 2, 2))>>
          [] inner.rule = "entrench_stmt" ->
                <<Entrench(inner_rules[1].text, EntrenchValueOf(inner_rules[2]))>>
          [] inner.rule = "magnet_stmt" ->
                <<Magnet(TrimMatches(inner_rules[1].text), NumberOr(inner_rules, 2, 4))>>
          [] inner.rule = "department_stmt" ->
                <<Department(inner_rules[1].text, NumberOr(inner_rules, 2, 4))>>
          [] inner.rule = "reflection_stmt" -> <<Reflect>>
          [] inner.rule = "axiom_stmt" ->
                <<Axiom(inner_rules[1].text, TrimMatches(inner_rules[2].text))>>
          [] inner.rule = "causality_stmt" ->
                <<Causality(inner_rules[1].text, inner_rules[2].text, inner_rules[3].text)>>
          [] OTHER -> <<>>

\* ParseStatements pushing the nodes of a manifold body after the manifold
\* instead of into it
ParseStatements_Hoist(pairs) ==
    IF pairs = <<>> THEN <<>>
    ELSE (IF pairs[1].rule = "statement"
          THEN (IF pairs[1].inner[1].rule = "manifold_block"
                THEN <<Manifold(pairs[1].inner[1].inner[1].text, <<>>)>>
                        \o ParseStatements_Hoist(Tail(pairs[1].inner[1].inner))
                ELSE ParseStatement(pairs[1].inner[1]))
          ELSE <<>>)
         \o ParseStatements_Hoist(Tail(pairs))

\* parse_statements: the for loop over the pairs; a pair that is not a
\* statement pushes nothing
ParseStatements(pairs) ==
    IF pairs = <<>> THEN <<>>
    ELSE (IF pairs[1].rule = "statement" THEN ParseStatement(pairs[1].inner[1]) ELSE <<>>)
         \o ParseStatements(Tail(pairs))

SoulOk(ast) == [ok |-> TRUE, ast |-> ast]
SoulErr(pos) == [ok |-> FALSE, error |-> [pest |-> pos]]

\* ParseSoul returning the empty AST where the parse fails
ParseSoul_OrDefault(input) ==
    IF LwasParse(input).ok
    THEN SoulOk(ParseStatements(LwasParse(input).pairs[1].inner))
    ELSE SoulOk(<<>>)

\* parse_soul: the ? returns the pest error; otherwise the statements of the
\* first pair, the program
ParseSoul(input) ==
    LET pairs == LwasParse(input)
    IN  IF ~pairs.ok THEN SoulErr(pairs.next)
        ELSE SoulOk(ParseStatements(pairs.pairs[1].inner))

Ident(c) == Pair("identifier", <<c>>, <<>>)
Quoted(c) == Pair("string_literal", <<"\"", c, "\"">>, <<>>)
Number(text) == Pair("number", text, <<>>)

\* one statement of each rule, numbers given and left out
SimpleLexemes ==
    {Simple("immortal_decl", <<Ident("P"), Quoted("v")>>),
     Simple("body_block", <<Ident("b"), Pair("block_content", <<" ", "x", " ", "y", "\n">>, <<>>)>>),
     Simple("spirit_block", <<Ident("s"), Ident("f"), Quoted("g"), Quoted("h")>>),
     Simple("resonate_stmt", <<Ident("r"), Number(<<"8">>)>>),
     Simple("resonate_stmt", <<Ident("r")>>),
     Simple("collapse_stmt", <<Ident("c"), Number(<<"0", ".", "2", "5">>)>>),
     Simple("entrench_stmt", <<Ident("k"), Number(<<"-", "1", ".", "5">>)>>),
     Simple("entrench_stmt",
            <<Ident("k"), Pair("vector", <<>>, <<Number(<<"1">>), Number(<<"2">>)>>)>>),
     Simple("magnet_stmt", <<Quoted("m"), Number(<<"3">>)>>),
     Simple("department_stmt", <<Ident("d")>>),
     Simple("reflection_stmt", <<>>),
     Simple("axiom_stmt", <<Ident("a"), Quoted("e")>>),
     Simple("causality_stmt", <<Ident("a"), Ident("b"), Ident("t")>>)}

Lexemes == SimpleLexemes \cup {BlockOpen(Ident("M")), BlockOpen(Ident("N")), BlockClose, Mismatch}

\* every source of up to MaxLexemes lexemes, and longer ones with manifolds
\* inside manifolds, well formed and not
SoulSources ==
    SeqsUpTo(Lexemes, MaxLexemes)
        \cup {<<BlockOpen(Ident("M")), Simple("reflection_stmt", <<>>)>> \o mid
                    \o <<Simple("resonate_stmt", <<Ident("r")>>)>> \o tail :
                mid \in {<<BlockOpen(Ident("N")), l, BlockClose>> : l \in Lexemes},
                tail \in {<<BlockClose, Simple("reflection_stmt", <<>>)>>, <<BlockClose>>, <<>>,
                          <<BlockClose, Mismatch>>}}

InitParse ==
    /\ source \in SoulSources
    /\ nodes = <<>>
    /\ bytecode = <<>>
    /\ compiled = FALSE
    /\ parsed = <<>>
    /\ NoVm
    /\ NoMigration

\* parse_soul(&content) returns
ParseSoulReturns ==
    /\ parsed = <<>>
    /\ parsed' = <<ParseSoul(source)>>
    /\ UNCHANGED <<source, nodes, bytecode, compiled, vmVars, migrationVars>>

NextParse == ParseSoulReturns

SpecParse == InitParse /\ [][NextParse]_vars

---------------------------------------------------------------------------
(* A second VM restored from a snapshot of the first.  The first VM runs,   *)
(* its snapshot is taken at some point of the run, and it runs on; then a   *)
(* second VM holding the same program is given the stack, the memory and    *)
(* the pc of the snapshot and is run.                                       *)

ResumePrograms ==
    CapturePrograms \cup BranchPrograms \cup ArithPrograms
        \cup {CompileText(ScenarioSource),
              <<LOAD(0), LOAD(1), PRINT, JUMP_IF(2), REQUEST_HOST>>,
              <<LOAD(5), JUMP(3), HALT, LOAD_STATE, ONTOLOGICAL_SHIFT(16673), PRINT>>,
              <<LOAD(I64_MAX), LOAD(1), SAVE_STATE, PRINT, STORE(5), STORE(0), ENTROPY_RESET,
                LOAD(I64_MAX), STORE(1), ENTROPY_RESET, PRINT>>}

InitResume ==
    /\ program \in ResumePrograms
    /\ stack = VmNew(program).stack
    /\ memory = VmNew(program).memory
    /\ pc = VmNew(program).pc
    /\ status = "Running"
    /\ output = <<>>
    /\ steps = 0
    /\ overflow_checks \in BOOLEAN
    /\ NoCompiler
    /\ NoMigration

\* capture_state() of the running first VM, kept for the second; origin is
\* the first VM as it is at the call
Snapshot ==
    /\ status = "Running"
    /\ kept = <<>>
    /\ captured' = <<CaptureState(stack, memory, pc)>>
    /\ kept' = <<[state |-> captured'[1], steps |-> steps, printed |-> Len(output),
                  origin |-> Observed(stack, memory, pc, status, <<>>)]>>
    /\ UNCHANGED <<vmVars, compilerVars, teleport, trace, replayed, host_call>>

\* The first VM has stopped, or has run as far as it is followed.  The second
\* VM: the same program, stack, memory and pc assigned from the snapshot.
Resume ==
    /\ kept # <<>> /\ replayed < 0
    /\ status # "Running" \/ steps >= MaxSteps
    /\ stack' = kept[1].state.stack_snapshot
    /\ memory' = kept[1].state.memory_snapshot
    /\ pc' = kept[1].state.program_counter
    /\ status' = "Running"
    /\ output' = <<>>
    /\ steps' = kept[1].steps
    /\ replayed' = 0
    /\ UNCHANGED <<program, overflow_checks, compilerVars, captured, teleport, kept, trace,
                   host_call>>

NextResume ==
    \/ Next
    \/ Snapshot
    \/ Resume

SpecResume == InitResume /\ [][NextResume]_vars

---------------------------------------------------------------------------
(* A second VM with the stack and the pc of a snapshot over another memory *)

\* memories that differ from mem
OtherMemories(mem) ==
    {[mem EXCEPT ![2] = I64_MAX, ![3] = I64_MAX], [mem EXCEPT ![MEMORY_SIZE - 1] = -7],
     ZeroMemory} \ {mem}

\* as Resume, with the memory assigned from elsewhere
ResumeElsewhere ==
    /\ kept # <<>> /\ replayed < 0
    /\ status # "Running" \/ steps >= MaxSteps
    /\ stack' = kept[1].state.stack_snapshot
    /\ memory' \in OtherMemories(kept[1].state.memory_snapshot)
    /\ pc' = kept[1].state.program_counter
    /\ status' = "Running"
    /\ output' = <<>>
    /\ steps' = kept[1].steps
    /\ replayed' = 0
    /\ UNCHANGED <<program, overflow_checks, compilerVars, captured, teleport, kept, trace,
                   host_call>>

NextTwin ==
    \/ Next
    \/ Snapshot
    \/ ResumeElsewhere

SpecTwin == InitResume /\ [][NextTwin]_vars

---------------------------------------------------------------------------
(* teleport_vm_to_host called on its own, for any snapshot and host id *)

\* target_host_id: &str, the one run passes and others
HostIds == {"", TARGET_HOST, "node-unknown"}

\* snapshots as capture_state returns them
VmStates ==
    {CaptureState(<<>>, ZeroMemory, 0),
     CaptureState(<<42>>, ZeroMemory, 3),
     CaptureState(<<I64_MIN, -1>>, [ZeroMemory EXCEPT ![0] = 7], 1)}

\* the arguments of a call, and what to_string, OsRng and encrypt will
\* return in it
HostCalls ==
    [vm_state : VmStates, target_host_id : HostIds, serialized : BOOLEAN,
     key : KeySpace, nonce : NonceSpace, encrypted : BOOLEAN]

InitTeleport ==
    /\ host_call \in {<<call>> : call \in HostCalls}
    /\ captured = <<>> /\ teleport = <<>> /\ kept = <<>> /\ trace = <<>> /\ replayed = -1
    /\ NoCompiler
    /\ NoVm

\* teleport_vm_to_host(vm_state, target_host_id).await returns
TeleportReturns ==
    /\ host_call # <<>> /\ teleport = <<>>
    /\ LET call == host_call[1]
       IN  teleport' = <<TeleportVmToHost(call.vm_state, call.target_host_id, call.serialized,
                                          call.key, call.nonce, call.encrypted)>>
    /\ UNCHANGED <<vmVars, compilerVars, captured, kept, trace, replayed, host_call>>

NextTeleport == TeleportReturns

SpecTeleport == InitTeleport /\ [][NextTeleport]_vars

---------------------------------------------------------------------------
(* Properties of the VM (specification Spec) *)

Running == status = "Running"
Halted == status = "Halted"
Panicked == status = "Panicked"

IsAddProgram ==
    /\ Len(program) = 4
    /\ program[1].op = "LOAD" /\ program[2].op = "LOAD"
    /\ program[3] = ADD /\ program[4] = HALT

\* C1: for all i64 a and b, LOAD a; LOAD b; ADD; HALT on a fresh VM runs to
\* HALT without aborting and then has a + b on top of the stack.
C1_AddLeavesSum ==
    IsAddProgram =>
        /\ ~Panicked
        /\ Halted => (stack # <<>> /\ Top(stack) = program[1].arg + program[2].arg)

IsDivZeroProgram ==
    /\ Len(program) = 4
    /\ program[1].op = "LOAD" /\ program[2] = LOAD(0)
    /\ program[3] = DIV /\ program[4] = HALT

\* C2: for any a, LOAD a; LOAD 0; DIV; HALT on a fresh VM never aborts: while
\* Running the next instruction can be fetched, the run ends by fetching
\* HALT, and from the DIV on the top of the stack is 0.
C2_DivByZeroPushesZero ==
    IsDivZeroProgram =>
        /\ ~Panicked
        /\ Running => (pc < Len(program) /\ steps = pc)
        /\ pc >= 3 => (stack # <<>> /\ Top(stack) = 0)
        /\ Halted => (pc = 4 /\ steps = 4)

C2_Witness ==
    /\ IsDivZeroProgram /\ program[1] = LOAD(10)
    /\ Halted /\ Top(stack) = 0

\* the arithmetic sum of all memory cells
MemorySum(mem) == PrefixSums(mem, 0, MEMORY_SIZE).sum

\* C3: a step that executes ENTROPY_RESET leaves memory[0] equal to the sum
\* of all cells before it and every other cell 0 (so the sum is unchanged),
\* whatever the memory holds.
C3_EntropyResetKeepsSum ==
    [][(Fetching /\ Opcode = ENTROPY_RESET) =>
            /\ ~Panicked'
            /\ memory'[0] = MemorySum(memory)
            /\ \A i \in MemIdx \ {0} : memory'[i] = 0
            /\ MemorySum(memory') = MemorySum(memory)]_vars

IsScenarioProgram ==
    program = <<LOAD(108), STORE(0), LOAD(42), STORE(1), ENTROPY_RESET, PRINT, HALT>>

\* C8 as stated: running the program compiled from the scenario source, the
\* PRINT instruction finds 150 on top of the stack and prints it.
C8_ScenarioPrints150 ==
    (program = CompileText(ScenarioSource) /\ output # <<>>) => output = <<ValueLine(150)>>

\* C8 amended: running the program compiled from the scenario source, the
\* PRINT instruction finds the stack empty and reports that; the sum 150 is
\* in memory slot 0 (all other cells 0) and is never on the stack.
C8_ScenarioPrintsEmptyStack ==
    program = CompileText(ScenarioSource) =>
        /\ IsScenarioProgram
        /\ ~Panicked
        /\ \A k \in 1 .. Len(stack) : stack[k] # 150
        /\ output # <<>> =>
              /\ output = <<EmptyStackLine>>
              /\ stack = <<>>
              /\ memory = [i \in MemIdx |-> IF i = 0 THEN 150 ELSE 0]
        /\ Halted => output # <<>>

C8_Witness ==
    /\ program = CompileText(ScenarioSource)
    /\ Halted
    /\ output = <<EmptyStackLine>>
    /\ memory[0] = 150

\* C9: a step that executes JUMP_IF(addr) on a non-empty stack removes exactly
\* the top value; the next instruction is addr when that value is nonzero and
\* the instruction after the JUMP_IF when it is zero.
C9_JumpIfPopsAndBranches ==
    [][(Fetching /\ Opcode.op = "JUMP_IF" /\ stack # <<>>) =>
            /\ stack' = Pop(stack)
            /\ Top(stack) = 0 => pc' = pc + 1
            /\ Top(stack) # 0 => pc' = Opcode.arg
            /\ memory' = memory /\ status' = status]_vars

\* a JUMP_IF at index 2 was taken on a nonzero value, leaving the value below
C9_Witness ==
    /\ Len(program) >= 3 /\ program[3].op = "JUMP_IF"
    /\ program[2] = LOAD(1) /\ program[1] = LOAD(7)
    /\ steps = 3 /\ pc = program[3].arg /\ pc # 3
    /\ stack = <<7>>

IsStoreProgram ==
    /\ Len(program) = 3
    /\ program[1].op = "LOAD" /\ program[2].op = "STORE" /\ program[3] = HALT
    /\ program[2].arg < MEMORY_SIZE

\* C10: for any v and any address a < 1024, LOAD v; STORE a; HALT on a fresh
\* VM halts with memory[a] = v, every other cell 0 and the stack empty.
C10_StoreWritesSlot ==
    IsStoreProgram =>
        /\ ~Panicked
        /\ Running => pc < Len(program)
        /\ Halted =>
              /\ stack = <<>>
              /\ memory = [i \in MemIdx |-> IF i = program[2].arg THEN program[1].arg ELSE 0]

C10_Witness ==
    /\ program = <<LOAD(42), STORE(0), HALT>>
    /\ Halted
    /\ memory[0] = 42 /\ memory[1] = 0 /\ stack = <<>>

---------------------------------------------------------------------------
(* Further properties of the VM (specification Spec) *)

\* C11: for every program and every reachable state, no step of the run loop
\* aborts: the VM is Running at a next instruction or Halted, and it is
\* Halted only by fetching HALT or with the pc at or past the end.
C11_NoStepAborts ==
    /\ ~Panicked
    /\ Halted => (pc >= Len(program) \/ (pc >= 1 /\ program[pc] = HALT))

\* C12: a step that executes STORE(addr) with addr at or beyond the memory
\* length on a non-empty stack pops one value, leaves every memory cell as
\* it was and goes on to the next instruction.
C12_StoreOutOfRangeDiscards ==
    [][(Fetching /\ Opcode.op = "STORE" /\ Opcode.arg >= MEMORY_SIZE /\ stack # <<>>) =>
            /\ stack' = Pop(stack)
            /\ memory' = memory
            /\ pc' = pc + 1
            /\ status' = "Running"]_vars

\* a value was loaded, STORE(1024) discarded it and the run went on to HALT
C12_Witness ==
    /\ program = <<LOAD(42), STORE(MEMORY_SIZE), HALT>>
    /\ Halted /\ pc = 3
    /\ stack = <<>> /\ memory = ZeroMemory

\* the operands C13 gives a binary operator met with fewer than two values:
\* a lone value is the right operand; a missing right operand is 1 for DIV
\* and 0 otherwise; a missing left operand is 0
C13_Right(d) == IF stack = <<>> THEN d ELSE Top(stack)
C13_Result ==
    CASE Opcode = ADD -> 0 + C13_Right(0)
      [] Opcode = SUB -> 0 - C13_Right(0)
      [] Opcode = MUL -> 0 * C13_Right(0)
      [] Opcode = DIV -> IF C13_Right(1) = 0 THEN 0 ELSE TruncDiv(0, C13_Right(1))

\* C13: a step that executes ADD, SUB, MUL or DIV with fewer than two values
\* on the stack does not abort, leaves exactly the one result on the stack
\* and goes on to the next instruction.
C13_UnderflowTakesDefaults ==
    [][(Fetching /\ Opcode \in {ADD, SUB, MUL, DIV} /\ Len(stack) < 2) =>
            /\ status' = "Running"
            /\ Len(stack') = 1
            /\ InI64(C13_Result) => stack' = <<C13_Result>>
            /\ pc' = pc + 1]_vars

\* C14: a step that executes REQUEST_HOST leaves the stack and the memory as
\* they were and the VM Running at the instruction that follows, whatever
\* teleport_vm_to_host returned.
C14_RequestHostNeverHalts ==
    [][(Fetching /\ Opcode = REQUEST_HOST) =>
            /\ teleport' # <<>>
            /\ stack' = stack
            /\ memory' = memory
            /\ pc' = pc + 1
            /\ status' = "Running"]_vars

\* a teleport failed and the instruction after REQUEST_HOST was executed
C14_Witness ==
    /\ program = <<REQUEST_HOST, LOAD(1)>>
    /\ teleport # <<>> /\ teleport[1].result = "EncryptionFailed"
    /\ stack = <<1>> /\ pc = 2

\* C15: a step that calls capture_state (SAVE_STATE, REQUEST_HOST) yields a
\* snapshot equal to the stack, the memory and the pc of the VM at the call,
\* with a checksum of 32 zero bytes, and leaves stack, memory and program as
\* they were; no other step changes the snapshot last captured.
C15_CaptureCopiesState ==
    [][IF Fetching /\ Opcode \in {SAVE_STATE, REQUEST_HOST}
       THEN /\ captured' # <<>>
            /\ captured'[1].stack_snapshot = stack'
            /\ captured'[1].memory_snapshot = memory'
            /\ captured'[1].program_counter = pc'
            /\ captured'[1].checksum = [i \in 1 .. 32 |-> 0]
            /\ stack' = stack /\ memory' = memory /\ program' = program
            /\ pc' = pc + 1
       ELSE captured' = captured]_vars

\* a snapshot was captured with a value in memory and a value on the stack,
\* and the VM has since popped that value and written it to memory
C15_Witness ==
    /\ program = <<LOAD(42), STORE(0), LOAD(42), SAVE_STATE, STORE(1), HALT>>
    /\ Halted
    /\ captured = <<[memory_snapshot |-> [i \in MemIdx |-> IF i = 0 THEN 42 ELSE 0],
                     stack_snapshot |-> <<42>>,
                     program_counter |-> 4, checksum |-> [i \in 1 .. 32 |-> 0]]>>
    /\ stack = <<>> /\ memory[1] = 42

\* C16: the second VM, restored from the snapshot, starts in the state the
\* first VM was in when the snapshot was taken and then passes, step by
\* step, through the states and the printed lines the first VM passed
\* through after the snapshot.
C16_ResumedRunRepeatsTrace ==
    replayed >= 0 =>
        /\ replayed = 0 => Observed(stack, memory, pc, status, output) = kept[1].origin
        /\ (replayed >= 1 /\ replayed <= Len(trace)) =>
              Observed(stack, memory, pc, status, output) = trace[replayed]

\* the second VM, restored in the middle of a loop with a value on the
\* stack, has repeated every step of the first and printed as the first did
C16_Witness ==
    /\ program = <<LOAD(0), LOAD(1), PRINT, JUMP_IF(2), REQUEST_HOST>>
    /\ kept # <<>>
    /\ kept[1].state.stack_snapshot = <<0, 1>> /\ kept[1].state.program_counter = 2
    /\ replayed = Len(trace) /\ replayed = 6
    /\ Halted
    /\ output = <<ValueLine(1), ValueLine(0)>>

\* cipher.decrypt(&nonce, ciphertext) under a key: the sealed plaintext when
\* key and nonce are those that sealed it, an error otherwise
C17_Decrypt(key, nonce, ciphertext) ==
    IF ciphertext.key = key /\ ciphertext.nonce = nonce THEN <<ciphertext.sealed>> ELSE <<>>

\* str::parse::<u8>
C17_ParseU8(tok) ==
    IF ParseUsize(tok).ok /\ ParseUsize(tok).val <= 255 THEN ParseUsize(tok) ELSE ParseErr

\* serde_json::from_str::<VMState>: each number text parsed at its field's type
C17_FromJson(doc) ==
    LET mem == [i \in DOMAIN doc.memory_snapshot |-> ParseI64(doc.memory_snapshot[i])]
        stk == [k \in DOMAIN doc.stack_snapshot |-> ParseI64(doc.stack_snapshot[k])]
        counter == ParseUsize(doc.program_counter)
        sum == [i \in DOMAIN doc.checksum |-> C17_ParseU8(doc.checksum[i])]
    IN  [ok |-> /\ \A i \in DOMAIN mem : mem[i].ok
                /\ \A k \in DOMAIN stk : stk[k].ok
                /\ counter.ok
                /\ \A i \in DOMAIN sum : sum[i].ok,
         state |-> [memory_snapshot |-> [i \in DOMAIN mem |-> mem[i].val],
                    stack_snapshot |-> [k \in DOMAIN stk |-> stk[k].val],
                    program_counter |-> counter.val,
                    checksum |-> [i \in DOMAIN sum |-> sum[i].val]]]

C19_TopIsRightOperand ==
    [][(Fetching /\ Opcode \in {SUB, DIV} /\ Len(stack) >= 2
            /\ (Opcode = DIV => Top(stack) # 0)) =>
            LET r == stack[Len(stack)]
                l == stack[Len(stack) - 1]
                rest == SubSeq(stack, 1, Len(stack) - 2)
            IN  stack' = Append(rest, IF Opcode = SUB THEN l - r ELSE TruncDiv(l, r))]_vars

\* C20: a step that executes an extension instruction leaves the stack and
\* the memory as they were, advances the pc by exactly one and leaves the
\* VM Running.
C20_ExtensionIsNoOp ==
    [][(Fetching /\ Opcode.op \in ExtensionOps) =>
            /\ stack' = stack
            /\ memory' = memory
            /\ pc' = pc + 1
            /\ status' = "Running"]_vars

\* PATCH_REALITY was executed between a LOAD and the PRINT of the loaded value
C20_Witness ==
    /\ program = <<LOAD(42), STORE(1), LOAD(42), PATCH_REALITY(404, "AETERNA_CORE_STABILITY"),
                   PRINT, HALT>>
    /\ Halted
    /\ stack = <<42>> /\ memory[1] = 42
    /\ output = <<ExtensionLine(program[4]), ValueLine(42)>>

\* C21: the VM starts Running with pc = 0.  A step takes it from Running to
\* Halted exactly when it fetches HALT or finds the pc at or past the end of
\* the program (also after a jump past the end), and from a Halted VM no
\* step changes the stack, the memory, the pc or what was executed.
C21_HaltsOnlyAtHaltOrEnd ==
    /\ (pc = 0 /\ Running)
    /\ [][/\ (Running /\ Halted') <=>
                ((Fetching /\ Opcode = HALT) \/ (Running /\ pc >= Len(program)))
          /\ Halted => (Halted' /\ stack' = stack /\ memory' = memory /\ pc' = pc
                        /\ steps' = steps /\ output' = output)]_vars

\* a JUMP past the end was executed and the next fetch halted the VM
C21_Witness ==
    /\ Len(program) = 2 /\ program[1] = JUMP(5)
    /\ Halted /\ pc = 5 /\ steps = 1

\* C22: a step that executes PRINT pops nothing: for every stack, the empty
\* one included, the stack and the memory are as before, and the VM goes on
\* Running at the next instruction.
C22_PrintLeavesState ==
    [][(Fetching /\ Opcode = PRINT) =>
            /\ stack' = stack
            /\ memory' = memory
            /\ pc' = pc + 1
            /\ Running']_vars

\* PRINT ran on a loaded value and the run ended with the value still there
C22_Witness ==
    /\ program = <<LOAD(I64_MIN), PRINT>>
    /\ Halted
    /\ stack = <<I64_MIN>> /\ output = <<ValueLine(I64_MIN)>>

\* C23: a step that executes SAVE_STATE leaves the stack and the memory
\* equal to what they were, and the next instruction fetched is the one
\* that follows it.
C23_SaveStateLeavesState ==
    [][(Fetching /\ Opcode = SAVE_STATE) =>
            /\ stack' = stack
            /\ memory' = memory
            /\ pc' = pc + 1
            /\ Running']_vars

\* SAVE_STATE ran on a non-empty stack over a written memory, and the STORE
\* after it found the value
C23_Witness ==
    /\ program = <<LOAD(42), STORE(0), LOAD(42), SAVE_STATE, STORE(1), HALT>>
    /\ Halted
    /\ memory[0] = 42 /\ memory[1] = 42 /\ stack = <<>>

\* C25: the memory has 1024 cells in every state and starts all zero, and
\* the program is the one the VM was created with: no step changes it.
C25_MemoryAndProgramFixed ==
    /\ (\A i \in 0 .. 1023 : memory[i] = 0)
    /\ [](DOMAIN memory = 0 .. 1023)
    /\ [][program' = program]_vars

\* ENTROPY_RESET rewrote a memory that held values, then the program ended
C25_Witness ==
    /\ \E i \in 1 .. Len(program) : program[i] = ENTROPY_RESET
    /\ Halted
    /\ memory[0] # 0 /\ \A i \in 1 .. 1023 : memory[i] = 0

\* C26: a step that executes ADD, SUB, MUL or DIV on a stack of at least two
\* values and completes leaves the stack exactly one shorter, for DIV also
\* when the divisor is 0: the dividend is consumed and the 0 takes its place.
C26_ArithmeticShrinksStackByOne ==
    [][(Fetching /\ Opcode \in {ADD, SUB, MUL, DIV} /\ Len(stack) >= 2 /\ Running') =>
            /\ Len(stack') = Len(stack) - 1
            /\ (Opcode = DIV /\ Top(stack) = 0) =>
                    stack' = Append(SubSeq(stack, 1, Len(stack) - 2), 0)]_vars

\* C27: a step that executes ADD, SUB, MUL, DIV or ENTROPY_RESET completes
\* for every operands and every memory: the VM is Running after it.
C27_ArithmeticNeverAborts ==
    [][(Fetching /\ Opcode \in {ADD, SUB, MUL, DIV, ENTROPY_RESET}) => Running']_vars

\* C28: the pc is advanced before the instruction is executed: the snapshot
\* taken by SAVE_STATE or REQUEST_HOST at index i records program_counter
\* i + 1, and a second VM restored from a snapshot starts fetching at the
\* recorded counter, so that restored from this one it fetches index i + 1
\* and does not execute the capturing instruction again.
C28_SnapshotPointsPastCapture ==
    [][/\ (Fetching /\ Opcode \in {SAVE_STATE, REQUEST_HOST} /\ steps' = steps + 1) =>
            /\ captured' # <<>>
            /\ captured'[1].program_counter = pc + 1
       /\ (replayed < 0 /\ replayed' = 0) =>
            /\ pc' = kept[1].state.program_counter
            /\ steps' = kept[1].steps
            /\ Running']_vars

\* SAVE_STATE at index 3 was executed by the first VM only: the second VM,
\* restored from what it captured, ran STORE and HALT and nothing else
C28_Witness ==
    /\ program = <<LOAD(42), STORE(0), LOAD(42), SAVE_STATE, STORE(1), HALT>>
    /\ captured # <<>> /\ kept # <<>>
    /\ captured[1].program_counter = 4 /\ kept[1].state = captured[1] /\ kept[1].steps = 4
    /\ replayed = 2 /\ steps = 6
    /\ Halted /\ pc = 6 /\ memory[1] = 42

\* C33: a step that executes ENTROPY_RESET leaves the stack as it was,
\* advances the pc by exactly one and leaves the VM Running, and the memory
\* it leaves is one that a second ENTROPY_RESET right after leaves as it is.
C33_EntropyResetIdempotent ==
    [][(Fetching /\ Opcode = ENTROPY_RESET) =>
            /\ stack' = stack
            /\ pc' = pc + 1
            /\ Running'
            /\ ~NeutralizeEntropy(memory', overflow_checks).panicked
            /\ NeutralizeEntropy(memory', overflow_checks).memory = memory']_vars

\* C36: a step that executes STORE or JUMP_IF on an empty stack leaves the
\* stack empty and the memory as it was, does not jump, and the VM goes on
\* Running at the next instruction.
C36_UnderflowIsNoOp ==
    [][(Fetching /\ Opcode.op \in {"STORE", "JUMP_IF"} /\ stack = <<>>) =>
            /\ stack' = <<>>
            /\ memory' = memory
            /\ pc' = pc + 1
            /\ Running']_vars

\* JUMP_IF(5) and then STORE(0) ran on the empty stack of a fresh VM, one
\* after the other, and the run ended at the end of the program
C36_Witness ==
    /\ program = <<JUMP_IF(5), STORE(0)>>
    /\ Halted /\ steps = 2 /\ pc = 2
    /\ stack = <<>> /\ memory[0] = 0

\* C37: a step that executes LOAD_STATE leaves the stack, the memory and
\* the captured snapshot as they were and advances the pc by exactly one:
\* what was captured before does not come back into the running VM.
C37_LoadStateRestoresNothing ==
    [][(Fetching /\ Opcode = LOAD_STATE) =>
            /\ stack' = stack
            /\ memory' = memory
            /\ captured' = captured
            /\ pc' = pc + 1
            /\ Running']_vars

\* LOAD_STATE ran after a capture of stack <<42>> over a zero memory and a
\* STORE: the stack is still empty and memory[0] still holds the 42
C37_Witness ==
    /\ program = <<LOAD(42), SAVE_STATE, STORE(0), LOAD_STATE, PRINT, HALT>>
    /\ Halted
    /\ captured # <<>> /\ captured[1].stack_snapshot = <<42>>
    /\ captured[1].memory_snapshot[0] = 0
    /\ stack = <<>> /\ memory[0] = 42 /\ output = <<EmptyStackLine>>

\* a program without JUMP and JUMP_IF
C32_JumpFree(prog) == \A k \in 1 .. Len(prog) : prog[k].op \notin {"JUMP", "JUMP_IF"}

\* C32: a program without JUMP and JUMP_IF is fetched in order, one
\* instruction per step and never more than len(program) of them, and the
\* run ends Halted: the VM is Running on the way and Halted at the end.
C32_JumpFreeHalts ==
    C32_JumpFree(program) =>
        /\ steps <= Len(program)
        /\ pc = steps
        /\ Running \/ Halted

---------------------------------------------------------------------------
(* Properties of two VMs over different memories (specification SpecTwin) *)

\* C31: a second VM started with the stack and the pc of the first and
\* another memory goes, step by step, through the stacks and the pcs the
\* first went through, and is Running, or stopped, where the first was.
C31_MemoryNeverRead ==
    (replayed >= 1 /\ replayed <= Len(trace)) =>
        /\ stack = trace[replayed].stack
        /\ pc = trace[replayed].pc
        /\ status = trace[replayed].status

---------------------------------------------------------------------------
(* Properties of teleport_vm_to_host (specification SpecTeleport) *)

\* C38: what teleport_vm_to_host returns does not depend on the host id: a
\* call in which serialization and encryption succeed returns Ok for every
\* snapshot and every host id, the empty and the unknown one included; no
\* call returns NetworkError or HostNotFound; and the same call for any
\* other host id returns the same.
C38_OutcomeIgnoresHost ==
    teleport # <<>> =>
        LET call == host_call[1]
        IN  /\ teleport[1].target_host_id = call.target_host_id
            /\ (call.serialized /\ call.encrypted) => teleport[1].result = "Ok"
            /\ teleport[1].result \notin {"NetworkError", "HostNotFound"}
            /\ \A h \in HostIds :
                  LET other == TeleportVmToHost(call.vm_state, h, call.serialized, call.key,
                                                call.nonce, call.encrypted)
                  IN  /\ other.result = teleport[1].result
                      /\ other.encrypted_state = teleport[1].encrypted_state

\* a call for the empty host id returned Ok
C38_Witness ==
    /\ teleport # <<>> /\ host_call # <<>>
    /\ host_call[1].target_host_id = "" /\ host_call[1].vm_state.stack_snapshot = <<42>>
    /\ teleport[1].result = "Ok" /\ teleport[1].target_host_id = ""

---------------------------------------------------------------------------
(* Properties of the AST compiler (specification SpecAst) *)

\* how many instructions of code are HALT
HaltCount(code) == Cardinality({k \in 1 .. Len(code) : code[k] = HALT})

\* C4, for the non-empty node sequences (the empty one is C5): the compiled
\* sequence, nested Manifolds included, ends with HALT and holds exactly one
\* HALT.
C4_ExactlyOneHalt ==
    (compiled /\ nodes # <<>>) =>
        (bytecode # <<>> /\ Last(bytecode) = HALT /\ HaltCount(bytecode) = 1)

RECURSIVE C6_Stream(_)
C6_Stream(ns) ==
    IF ns = <<>> THEN <<>>
    ELSE (IF ns[1].kind = "Manifold"
          THEN <<LOAD(MANIFOLD_SCALE * Len(ns[1].body)), STORE(0)>> \o C6_Stream(ns[1].body)
          ELSE CompileNode(ns[1]))
         \o C6_Stream(Tail(ns))

\* C6: the compiled sequence of a non-empty node sequence is the stream of
\* its nodes, in which nested bodies contribute no HALT, followed by the
\* terminal HALT.
C6_ManifoldBodyHasNoHalt ==
    (compiled /\ nodes # <<>>) => bytecode = Append(C6_Stream(nodes), HALT)

\* the opcode of the one instruction the arm of a non-Manifold node pushes
C29_ArmOp(kind) ==
    CASE kind = "Resonate" -> "RESONATE_MEMBRANE"
      [] kind = "Collapse" -> "INVERT_ENTROPY"
      [] kind = "Entrench" -> "VERIFY_TIMELINE"
      [] kind = "Immortal" -> "LOAD"
      [] kind = "Body" -> "DEFINE_MATTER"
      [] kind = "Spirit" -> "PREDICT_NEED"
      [] kind = "Magnet" -> "ONTOLOGICAL_SHIFT"
      [] kind = "Department" -> "FORK_INSTANCE"
      [] kind = "Reflect" -> "ENTROPY_RESET"
      [] kind = "Axiom" -> "INVERT_LOGIC"
      [] kind = "Causality" -> "PATCH_REALITY"

\* the opcodes of a node sequence in source order, depth-first: a Manifold
\* gives its LOAD and STORE, then the opcodes of its body
RECURSIVE C29_Ops(_)
C29_Ops(ns) ==
    IF ns = <<>> THEN <<>>
    ELSE (IF ns[1].kind = "Manifold"
          THEN <<"LOAD", "STORE">> \o C29_Ops(ns[1].body)
          ELSE <<C29_ArmOp(ns[1].kind)>>)
         \o C29_Ops(Tail(ns))

\* the opcodes of code other than HALT, in order
C29_EmittedOps(code) ==
    LET kept_ops == SelectSeq(code, LAMBDA instr : instr # HALT)
    IN  [k \in 1 .. Len(kept_ops) |-> kept_ops[k].op]

C29_Flat(ns) == \A k \in 1 .. Len(ns) : ns[k].kind # "Manifold"

\* C29: the instructions compiled for a node sequence are those of its nodes
\* in source order, depth-first for Manifolds, with no node dropped and one
\* instruction for each non-Manifold node; a flat sequence of k >= 1
\* non-Manifold nodes compiles to its k instructions followed by HALT.
C29_CompileKeepsOrder ==
    compiled =>
        /\ C29_EmittedOps(bytecode) = C29_Ops(nodes)
        /\ (nodes # <<>> /\ C29_Flat(nodes)) =>
              /\ Len(bytecode) = Len(nodes) + 1
              /\ bytecode[Len(bytecode)] = HALT
              /\ \A k \in 1 .. Len(nodes) : bytecode[k].op = C29_ArmOp(nodes[k].kind)

\* three different non-Manifold nodes compiled to their three instructions
\* in order and the HALT
C29_Witness ==
    /\ compiled
    /\ nodes = <<Resonate("core", 8), Reflect, Magnet("m", 13)>>
    /\ bytecode = <<RESONATE_MEMBRANE(2), ENTROPY_RESET, ONTOLOGICAL_SHIFT(3), HALT>>

---------------------------------------------------------------------------
(* Properties of the parser (specification SpecParse) *)

\* the statements written in a source, nested ones included
C24_Statements(src) == Cardinality({k \in 1 .. Len(src) : src[k].lex \in {"simple", "open"}})

\* a source that follows the grammar: no text without a rule, and every
\* manifold block that is opened is closed, none closed that was not opened
C24_WellFormed(src) ==
    LET opens(k) == Cardinality({j \in 1 .. k : src[j].lex = "open"})
        closes(k) == Cardinality({j \in 1 .. k : src[j].lex = "close"})
    IN  /\ \A k \in 1 .. Len(src) : src[k].lex # "mismatch" /\ closes(k) <= opens(k)
        /\ closes(Len(src)) = opens(Len(src))

\* the nodes of an AST, those inside Manifold bodies included
RECURSIVE C24_NodeCount(_)
C24_NodeCount(ast) ==
    IF ast = <<>> THEN 0
    ELSE 1 + (IF ast[1].kind = "Manifold" THEN C24_NodeCount(ast[1].body) ELSE 0)
           + C24_NodeCount(Tail(ast))

\* C24: parse_soul returns the complete AST, a node for every statement of
\* the input, when the input follows the grammar, and otherwise the error and
\* no node: never the nodes of a part of the input.
C24_CompleteAstOrError ==
    parsed # <<>> =>
        /\ parsed[1].ok <=> C24_WellFormed(source)
        /\ parsed[1].ok => C24_NodeCount(parsed[1].ast) = C24_Statements(source)
        /\ ~parsed[1].ok => DOMAIN parsed[1] = {"ok", "error"}

\* two statements followed by a text that matches no rule: the error for
\* the third lexeme, and no node for the two statements
C24_Witness ==
    /\ source = <<Simple("reflection_stmt", <<>>), Simple("department_stmt", <<Ident("d")>>),
                  Mismatch>>
    /\ parsed = <<SoulErr(3)>>

\* the name of the rule whose arm makes a node of this kind
C30_RuleOf(kind) ==
    CASE kind = "Immortal" -> "immortal_decl"
      [] kind = "Body" -> "body_block"
      [] kind = "Spirit" -> "spirit_block"
      [] kind = "Manifold" -> "manifold_block"
      [] kind = "Resonate" -> "resonate_stmt"
      [] kind = "Collapse" -> "collapse_stmt"
      [] kind = "Entrench" -> "entrench_stmt"
      [] kind = "Magnet" -> "magnet_stmt"
      [] kind = "Department" -> "department_stmt"
      [] kind = "Reflect" -> "reflection_stmt"
      [] kind = "Axiom" -> "axiom_stmt"
      [] kind = "Causality" -> "causality_stmt"

\* an AST written back as the rules of its statements in source order, the
\* body of a Manifold between its name and the end of its block
RECURSIVE C30_Written(_)
C30_Written(ast) ==
    IF ast = <<>> THEN <<>>
    ELSE (IF ast[1].kind = "Manifold"
          THEN <<[rule |-> "manifold_block", name |-> ast[1].name]>>
                  \o C30_Written(ast[1].body) \o <<[rule |-> "", name |-> <<>>]>>
          ELSE <<[rule |-> C30_RuleOf(ast[1].kind), name |-> <<>>]>>)
         \o C30_Written(Tail(ast))

\* C30: the AST parse_soul returns has one node for each statement of the
\* source, in source order, and the body of a Manifold node is the nodes of
\* the statements nested in its block, in order, at every depth.
C30_OneNodePerStatementInOrder ==
    (parsed # <<>> /\ parsed[1].ok) =>
        C30_Written(parsed[1].ast) =
            [k \in 1 .. Len(source) |->
                [rule |-> source[k].rule,
                 name |-> IF source[k].lex = "open" THEN source[k].fields[1].text ELSE <<>>]]

\* a manifold inside a manifold between statements: the nodes nest as the
\* blocks do and follow the order of the source
C30_Witness ==
    /\ source = <<BlockOpen(Ident("M")), Simple("reflection_stmt", <<>>),
                  BlockOpen(Ident("N")), Simple("magnet_stmt", <<Quoted("m"), Number(<<"3">>)>>),
                  BlockClose, Simple("resonate_stmt", <<Ident("r")>>), BlockClose,
                  Simple("reflection_stmt", <<>>)>>
    /\ parsed = <<SoulOk(<<Manifold(<<"M">>,
                                    <<Reflect, Manifold(<<"N">>, <<Magnet(<<"m">>, 12)>>),
                                      Resonate(<<"r">>, 4)>>),
                           Reflect>>)>>

---------------------------------------------------------------------------
(* Properties of the text compiler (specification SpecText) *)

\* the operands the scenario and the token pool write, with their values
C7_Lit(v) == [empty |-> FALSE, val |-> v]
C7_NoLit == [empty |-> TRUE, val |-> 0]

C7_I64Literal(tok) ==
    CASE tok = <<"1", "0", "8">> -> C7_Lit(108)
      [] tok = <<"4", "2">> -> C7_Lit(42)
      [] tok = <<"0">> -> C7_Lit(0)
      [] tok = <<"1">> -> C7_Lit(1)
      [] tok = <<"+", "7">> -> C7_Lit(7)
      [] tok = <<"-", "5">> -> C7_Lit(-5)
      [] OTHER -> C7_NoLit

C7_AddressLiteral(tok) ==
    IF tok = <<"-", "5">> THEN C7_NoLit ELSE C7_I64Literal(tok)

\* The instructions C7 gives for well-formed statements: tokens read from
\* index i as MANIFEST <i64>, ANCHOR <address>, BECOME VOID, ECHO, TRANSCEND.
\* wf is FALSE when the tokens are not a sequence of such statements.
RECURSIVE C7_Statements(_, _, _)
C7_Statements(tokens, i, code) ==
    IF i > Len(tokens) THEN [wf |-> TRUE, code |-> code]
    ELSE LET tok == tokens[i]
             has_operand == i < Len(tokens)
             operand == tokens[i + 1]
         IN  CASE tok = KW_MANIFEST /\ has_operand /\ ~C7_I64Literal(operand).empty ->
                    C7_Statements(tokens, i + 2, Append(code, LOAD(C7_I64Literal(operand).val)))
               [] tok = KW_ANCHOR /\ has_operand /\ ~C7_AddressLiteral(operand).empty ->
                    C7_Statements(tokens, i + 2,
                                  Append(code, STORE(C7_AddressLiteral(operand).val)))
               [] tok = KW_BECOME /\ has_operand /\ operand = KW_VOID ->
                    C7_Statements(tokens, i + 2, Append(code, ENTROPY_RESET))
               [] tok = KW_ECHO -> C7_Statements(tokens, i + 1, Append(code, PRINT))
               [] tok = KW_TRANSCEND -> C7_Statements(tokens, i + 1, Append(code, ADD))
               [] OTHER -> [wf |-> FALSE, code |-> code]

\* C7: a source made of well-formed statements compiles to their instructions
\* in source order followed by one HALT, and the scenario source compiles to
\* LOAD 108, STORE 0, LOAD 42, STORE 1, ENTROPY_RESET, PRINT, HALT.
C7_TextCompilerMapping ==
    compiled =>
        /\ LET st == C7_Statements(SplitWhitespace(source), 1, <<>>)
           IN  st.wf => bytecode = Append(st.code, HALT)
        /\ source = ScenarioSource =>
              bytecode = <<LOAD(108), STORE(0), LOAD(42), STORE(1), ENTROPY_RESET, PRINT, HALT>>

C7_Witness ==
    /\ compiled
    /\ source = ScenarioSource
    /\ bytecode = <<LOAD(108), STORE(0), LOAD(42), STORE(1), ENTROPY_RESET, PRINT, HALT>>


\* C34: for every source text, the empty one and one without any recognised
\* token included, the compiled sequence holds HALT exactly once, at its
\* last position.
C34_TextEndsInOneHalt ==
    compiled =>
        /\ bytecode # <<>>
        /\ bytecode[Len(bytecode)] = HALT
        /\ \A k \in 1 .. Len(bytecode) - 1 : bytecode[k] # HALT

\* the empty source compiled to the HALT alone
C34_Witness == compiled /\ source = <<>> /\ bytecode = <<HALT>>

\* what the token at index k of tokens gives on its own account: a keyword
\* with the operand it needs right after it gives its instruction, ECHO and
\* TRANSCEND give theirs, anything else gives nothing
C35_Emits(tokens, k) ==
    LET tok == tokens[k]
        has_operand == k < Len(tokens)
        operand == tokens[k + 1]
    IN  CASE tok = KW_MANIFEST /\ has_operand /\ ParseI64(operand).ok ->
                <<LOAD(ParseI64(operand).val)>>
          [] tok = KW_ANCHOR /\ has_operand /\ ParseUsize(operand).ok ->
                <<STORE(ParseUsize(operand).val)>>
          [] tok = KW_BECOME /\ has_operand /\ operand = KW_VOID -> <<ENTROPY_RESET>>
          [] tok = KW_ECHO -> <<PRINT>>
          [] tok = KW_TRANSCEND -> <<ADD>>
          [] OTHER -> <<>>

RECURSIVE C35_EmitsFrom(_, _)
C35_EmitsFrom(tokens, k) ==
    IF k > Len(tokens) THEN <<>> ELSE C35_Emits(tokens, k) \o C35_EmitsFrom(tokens, k + 1)

\* C35: the text compiler returns for every source, and every token is
\* examined as a keyword unless it was used as an operand: the compiled
\* sequence is what each token gives on its own account, in order, then
\* HALT.  An unrecognised token, MANIFEST or ANCHOR without a number after
\* it and BECOME without VOID give nothing, and the token after them still
\* gives its own: MANIFEST ECHO compiles to PRINT, HALT.
C35_NoTokenLost ==
    compiled =>
        /\ bytecode = Append(C35_EmitsFrom(SplitWhitespace(source), 1), HALT)
        /\ SplitWhitespace(source) = <<KW_MANIFEST, KW_ECHO>> => bytecode = <<PRINT, HALT>>

\* ANCHOR without an address, then MANIFEST without a number, then ECHO
C35_Witness ==
    /\ compiled
    /\ SplitWhitespace(source) = <<KW_ANCHOR, KW_MANIFEST, KW_ECHO>>
    /\ bytecode = <<PRINT, HALT>>

=============================================================================
